---- MODULE Spec2Model ----
(***************************************************************************)
(* A model of zyaml (src/zyaml.py): the line-oriented Scanner that turns   *)
(* YAML text into tokens, and the RootNode tree builder that folds the     *)
(* tokens into documents.                                                  *)
(*                                                                         *)
(* Text is a sequence of one-character strings; positions are 0-based as   *)
(* in the source (text[i] of the source is text[i+1] here).  The only      *)
(* whitespace character of the model's alphabet is the space.              *)
(***************************************************************************)
EXTENDS Integers, Sequences, FiniteSets, TLC

VARIABLES
    buffer,        \* the input, as buffer.splitlines() (kept for reference)
    gen,           \* Scanner.gen: the enumerate() generator over the lines
    line_number,   \* Scanner.line_number
    line_pos,      \* Scanner.line_pos
    line_size,     \* Scanner.line_size
    line_text,     \* Scanner.line_text
    pending,       \* Scanner.pending
    flow_ender,    \* Scanner.flow_ender
    token,         \* the local 'token' of Scanner.__iter__
    tokens,        \* the tokens yielded so far, in order
    docs,          \* RootNode.docs
    head,          \* RootNode.head, as the stack of open nodes (top is last)
    marshaller,    \* RootNode.marshaller
    tag_indent,    \* RootNode.tag_indent
    doc_consumed,  \* RootNode.doc_consumed
    anchors,       \* RootNode.anchors
    pc,            \* "start", "run", "done" or "error"
    error,         \* the exception that ended the run, if any
    result         \* what load_string returned

vars == << buffer, gen, line_number, line_pos, line_size, line_text, pending,
           flow_ender, token, tokens, docs, head, marshaller, tag_indent,
           doc_consumed, anchors, pc, error, result >>

-----------------------------------------------------------------------------
(* Python's None, for the integer-valued fields (line numbers, indents).   *)
None == 0 - 1

Min(S) == CHOOSE x \in S : \A y \in S : x <= y

(* text[i] and text[a:b] of Python, on 0-based positions. *)
PyAt(text, i) == text[i + 1]

PySlice(text, a, b) ==
    LET e == IF b > Len(text) THEN Len(text) ELSE b
    IN  IF a >= e THEN << >> ELSE SubSeq(text, a + 1, e)

(* The end of the run of spaces that starts at p (greedy whitespace). *)
SkipSpaces(text, p) ==
    IF p >= Len(text) THEN p
    ELSE Min({q \in p..Len(text) : q = Len(text) \/ text[q + 1] # " "})

(* The end of the run of non-spaces that starts at p. *)
SkipNonSpaces(text, p) ==
    IF p >= Len(text) THEN p
    ELSE Min({q \in p..Len(text) : q = Len(text) \/ text[q + 1] = " "})

get_indent(text) == SkipSpaces(text, 0)

(* str.rstrip on the model's alphabet (a space, or the newline that joins  *)
(* the lines of a block scalar).                                           *)
RECURSIVE rstrip(_)
rstrip(text) ==
    IF text # << >> /\ text[Len(text)] \in {" ", "\n"}
    THEN rstrip(SubSeq(text, 1, Len(text) - 1))
    ELSE text

(* text.index(sub), or None for ValueError, for a two-character sub. *)
Index2(text, c1, c2) ==
    LET S == {i \in 0..(Len(text) - 2) : text[i + 1] = c1 /\ text[i + 2] = c2}
    IN  IF S = {} THEN None ELSE Min(S)

decommented(text) ==
    IF text = << >> THEN text
    ELSE IF text[1] = "#" THEN << >>
    ELSE LET i == Index2(text, " ", "#")
         IN  IF i = None THEN text ELSE rstrip(PySlice(text, 0, i))

-----------------------------------------------------------------------------
(* Values of the loaded documents.  t is the Python type, s the text of a  *)
(* str, items the elements of a list, or k1, v1, k2, v2, ... of a dict in  *)
(* insertion order.                                                        *)
VNone == [t |-> "none", s |-> << >>, items |-> << >>]
VStr(text) == [t |-> "str", s |-> text, items |-> << >>]
VList(elems) == [t |-> "list", s |-> << >>, items |-> elems]
VDict(kvs) == [t |-> "dict", s |-> << >>, items |-> kvs]

-----------------------------------------------------------------------------
(* Tokens (class Token and its subclasses).  value is the token's value    *)
(* (VNone for None), style the ScalarToken style (<< >> for None), name    *)
(* the DirectiveToken name, marshaller the TagToken marshaller ("None"     *)
(* when the registry has none).                                            *)
Token(kind, ln, indent, value) ==
    [kind |-> kind, line_number |-> ln, indent |-> indent, value |-> value,
     style |-> << >>, name |-> << >>, marshaller |-> "None"]

(* next_token returning None. *)
NoToken == Token("None", None, None, VNone)

(* What a Scanner method hands back: the scanner's fields after the call,  *)
(* the returned token, and the exception raised, if any: its class in exc, *)
(* its message in msg (with the line number the message quotes in marg),   *)
(* and the line_number and indent the ParseError was constructed with.     *)
Ret(sc, tok) ==
    [sc |-> sc, tok |-> tok, exc |-> "", msg |-> "", marg |-> None,
     eline |-> None, eindent |-> None]

Raise(sc, exc, msg, marg, eline, eindent) ==
    [sc |-> sc, tok |-> NoToken, exc |-> exc, msg |-> msg, marg |-> marg,
     eline |-> eline, eindent |-> eindent]

-----------------------------------------------------------------------------
(* RE_LINE_SPLIT.match(text): the stripped leader (group 2 or group 3),    *)
(* or "" when the line does not match.                                     *)
RE_LINE_SPLIT(text) ==
    LET i == get_indent(text)
        n == Len(text)
        EndOrSpace(p) == p >= n \/ text[p + 1] = " "
    IN  IF i < n /\ text[i + 1] \in {"%", "#"} THEN text[i + 1]
        ELSE IF i < n /\ text[i + 1] = "-" /\ EndOrSpace(i + 1) THEN "-"
        ELSE IF n >= 3 /\ SubSeq(text, 1, 3) = << "-", "-", "-" >> /\ EndOrSpace(3)
             THEN "---"
        ELSE IF n >= 3 /\ SubSeq(text, 1, 3) = << ".", ".", "." >> /\ EndOrSpace(3)
             THEN "..."
        ELSE ""

(* Group 2 of RE_FLOW_SEP / RE_BLOCK_SEP tried at position q: the end of   *)
(* its match, or None.  singles is the bracket class of the regex.         *)
SepEnd(text, q, singles) ==
    IF q >= Len(text) THEN None
    ELSE LET c == text[q + 1]
         IN  IF c = "#" THEN Len(text)
             ELSE IF c \in {"!", "&", "*"}
                  THEN IF q + 1 < Len(text) /\ text[q + 2] # " "
                       THEN SkipNonSpaces(text, q + 1) ELSE None
             ELSE IF c \in singles THEN q + 1
             ELSE IF c = ":"
                  THEN IF q + 1 = Len(text) THEN q + 1
                       ELSE IF text[q + 2] = " " THEN SkipSpaces(text, q + 1)
                       ELSE None
             ELSE None

(* regex.search(text, start): the spans of group 1 and group 2 of the      *)
(* leftmost match, found = FALSE when there is none.  SepAt is the match   *)
(* whose group 1 starts at p and whose group 2 starts at q.                *)
SepFirst(text, S, singles) ==
    IF S = {} THEN [found |-> FALSE, s1 |-> None, s2 |-> None, e2 |-> None]
    ELSE [found |-> TRUE, s1 |-> Min(S), s2 |-> SkipSpaces(text, Min(S)),
          e2 |-> SepEnd(text, SkipSpaces(text, Min(S)), singles)]

SepSearch(text, start, singles) ==
    SepFirst(text,
             {p \in start..Len(text) :
                 SepEnd(text, SkipSpaces(text, p), singles) # None},
             singles)

RE_FLOW_SEP(text, start) ==
    SepSearch(text, start, {"[", "]", "{", "}", "\"", "'", ","})

RE_BLOCK_SEP(text, start) ==
    SepSearch(text, start, {"[", "]", "{", "}", "\"", "'", ">", "|"})

(* RE_DOUBLE_QUOTE_END.search(text, start): the span of group 1. *)
RE_DOUBLE_QUOTE_END(text, start) ==
    LET S == {i \in start..(Len(text) - 2) :
                 text[i + 1] # "\\" /\ text[i + 2] = "\""}
    IN  IF S = {} THEN [found |-> FALSE, s1 |-> None, e1 |-> None]
        ELSE [found |-> TRUE, s1 |-> Min(S), e1 |-> Min(S) + 2]

(* RE_SINGLE_QUOTE_END.search(text, start): the span of group 1, which     *)
(* takes in the character after the closing quote when there is one.       *)
RE_SINGLE_QUOTE_END(text, start) ==
    LET S == {i \in start..(Len(text) - 2) :
                 /\ text[i + 1] # "'"
                 /\ text[i + 2] = "'"
                 /\ (i + 2 = Len(text) \/ text[i + 3] # "'")}
    IN  IF S = {} THEN [found |-> FALSE, s1 |-> None, e1 |-> None]
        ELSE LET i == Min(S)
             IN  [found |-> TRUE, s1 |-> i,
                  e1 |-> IF i + 2 = Len(text) THEN i + 2 ELSE i + 3]

-----------------------------------------------------------------------------
(* Small string helpers of the Python library, on sequences of characters. *)
StartsWith(text, prefix) ==
    Len(text) >= Len(prefix) /\ SubSeq(text, 1, Len(prefix)) = prefix

RECURSIVE lstrip(_)
lstrip(text) ==
    IF text # << >> /\ text[1] \in {" ", "\n"} THEN lstrip(Tail(text)) ELSE text

strip(text) == lstrip(rstrip(text))

(* sep.join(parts) *)
RECURSIVE Join(_, _)
Join(parts, sep) ==
    IF parts = << >> THEN << >>
    ELSE IF Len(parts) = 1 THEN parts[1]
    ELSE parts[1] \o sep \o Join(Tail(parts), sep)

(* text.partition(c): the text before the first c and the text after it. *)
Partition(text, c) ==
    LET S == {i \in 1..Len(text) : text[i] = c}
    IN  IF S = {} THEN [before |-> text, after |-> << >>]
        ELSE [before |-> SubSeq(text, 1, Min(S) - 1),
              after |-> SubSeq(text, Min(S) + 1, Len(text))]

(* text.replace(c, "", 1) *)
RemoveFirst(text, c) ==
    LET S == {i \in 1..Len(text) : text[i] = c}
    IN  IF S = {} THEN text
        ELSE SubSeq(text, 1, Min(S) - 1) \o SubSeq(text, Min(S) + 1, Len(text))

(* text.replace("''", "'") *)
RECURSIVE UnescapeSingle(_)
UnescapeSingle(text) ==
    IF Len(text) < 2 THEN text
    ELSE IF text[1] = "'" /\ text[2] = "'"
         THEN << "'" >> \o UnescapeSingle(SubSeq(text, 3, Len(text)))
         ELSE << text[1] >> \o UnescapeSingle(Tail(text))

(* codecs.decode(text, "unicode_escape") on the model's alphabet, which    *)
(* has no hexadecimal or octal escape: a backslash before n, a quote or a  *)
(* backslash is decoded, before any other character it is kept.            *)
RECURSIVE UnicodeEscape(_)
UnicodeEscape(text) ==
    IF Len(text) < 2 THEN text
    ELSE IF text[1] = "\\" /\ text[2] \in {"\\", "\"", "'"}
         THEN << text[2] >> \o UnicodeEscape(SubSeq(text, 3, Len(text)))
    ELSE IF text[1] = "\\" /\ text[2] = "n"
         THEN << "\n" >> \o UnicodeEscape(SubSeq(text, 3, Len(text)))
    ELSE IF text[1] = "\\"
         THEN << text[1], text[2] >> \o UnicodeEscape(SubSeq(text, 3, Len(text)))
    ELSE << text[1] >> \o UnicodeEscape(Tail(text))

Digits == {"0", "1", "2", "3", "4", "5", "6", "7", "8", "9"}

DigitValue(c) ==
    CASE c = "0" -> 0 [] c = "1" -> 1 [] c = "2" -> 2 [] c = "3" -> 3
      [] c = "4" -> 4 [] c = "5" -> 5 [] c = "6" -> 6 [] c = "7" -> 7
      [] c = "8" -> 8 [] c = "9" -> 9

-----------------------------------------------------------------------------
(* The marshaller registry built by Scanner.__init__ from the subclasses   *)
(* of Marshaller: the names registered under the prefix "".                *)
Marshallers ==
    { << "m", "a", "p" >>, << "s", "e", "q" >>, << "s", "e", "t" >>,
      << "s", "c", "a", "l", "a", "r" >>, << "s", "t", "r" >>,
      << "i", "n", "t" >>, << "n", "u", "l", "l" >>, << "b", "o", "o", "l" >> }

MarshallerName(name) ==
    CASE name = << "m", "a", "p" >> -> "map"
      [] name = << "s", "e", "q" >> -> "seq"
      [] name = << "s", "e", "t" >> -> "set"
      [] name = << "s", "c", "a", "l", "a", "r" >> -> "scalar"
      [] name = << "s", "t", "r" >> -> "str"
      [] name = << "i", "n", "t" >> -> "int"
      [] name = << "n", "u", "l", "l" >> -> "null"
      [] name = << "b", "o", "o", "l" >> -> "bool"

get_marshaller(text) ==
    LET t == IF StartsWith(text, << "!" >>) THEN Tail(text) ELSE text
        p == Partition(t, "!")
    IN  IF p.before = << >> /\ p.after \in Marshallers
        THEN MarshallerName(p.after) ELSE "None"

-----------------------------------------------------------------------------
(* The constructors of the token classes that compute something. *)
DirectiveToken(ln, indent, text) ==
    LET t == decommented(text)
        yaml == << "%", "Y", "A", "M", "L" >>
        tag == << "%", "T", "A", "G" >>
        p == Partition(t, " ")
    IN  IF StartsWith(t, yaml)
        THEN [Token("Directive", ln, indent, VStr(strip(SubSeq(t, 6, Len(t)))))
                 EXCEPT !.name = yaml]
        ELSE IF StartsWith(t, tag)
        THEN [Token("Directive", ln, indent, VStr(strip(SubSeq(t, 5, Len(t)))))
                 EXCEPT !.name = tag]
        ELSE [Token("Directive", ln, indent, VStr(strip(p.after)))
                 EXCEPT !.name = p.before]

TagToken(ln, indent, text, m) ==
    [Token("Tag", ln, indent, VStr(text)) EXCEPT !.marshaller = m]

ScalarToken(ln, indent, value, style) ==
    [Token("Scalar", ln, indent, value) EXCEPT !.style = style]

(* ScalarToken.set_raw_text: the value of a quoted scalar from its text. *)
set_raw_text(tok, text) ==
    [tok EXCEPT !.value =
        VStr(IF tok.style = << "'" >> THEN UnescapeSingle(text)
             ELSE IF tok.style = << "\"" >> THEN UnicodeEscape(text)
             ELSE text)]

set_raw_lines(tok, lines) == set_raw_text(tok, Join(lines, << " " >>))

-----------------------------------------------------------------------------
(* Scanner methods.  sc is the record of the scanner's fields.  A method   *)
(* that goes on from the result of a call is split at that call: the       *)
(* second half takes the call's result as a parameter.                     *)

consume_directive(sc) ==
    IF sc.line_text[1] = " "
    THEN Raise(sc, "ParseError", "Directive must not be indented", None, None, None)
    ELSE Ret([sc EXCEPT !.line_pos = sc.line_size],
             DirectiveToken(sc.line_number, 0, sc.line_text))

consume_block_entry(sc) ==
    Ret([sc EXCEPT !.line_pos = get_indent(sc.line_text) + 2],
        Token("BlockEntry", sc.line_number, get_indent(sc.line_text), VNone))

consume_doc_start(sc) ==
    Ret([sc EXCEPT !.line_pos = 4], Token("DocumentStart", sc.line_number, 0, VNone))

consume_doc_end(sc) ==
    Ret([sc EXCEPT !.line_pos = 4], Token("DocumentEnd", sc.line_number, 0, VNone))

(* self.leaders.get(leader)() *)
leaders(leader, sc) ==
    CASE leader = "%" -> consume_directive(sc)
      [] leader = "-" -> consume_block_entry(sc)
      [] leader = "---" -> consume_doc_start(sc)
      [] leader = "..." -> consume_doc_end(sc)

RECURSIVE next_line(_, _)

(* Scanner.next_line once next(self.gen) has given a line: sc holds the    *)
(* line, leader is what RE_LINE_SPLIT made of it.                          *)
next_line_split(sc, leader, keep_comments) ==
    IF leader = "" THEN Ret(sc, NoToken)
    ELSE IF leader # "#" THEN leaders(leader, sc)
    ELSE IF keep_comments THEN Ret(sc, NoToken)
    ELSE next_line(sc, keep_comments)

next_line(sc, keep_comments) ==
    IF sc.gen.lines = << >>
    THEN Raise(sc, "StopIteration", "", None, None, None)
    ELSE next_line_split(
             [sc EXCEPT !.gen = [next |-> @.next + 1, lines |-> Tail(@.lines)],
                        !.line_number = sc.gen.next,
                        !.line_text = Head(sc.gen.lines),
                        !.line_pos = 0,
                        !.line_size = Len(Head(sc.gen.lines))],
             RE_LINE_SPLIT(Head(sc.gen.lines)),
             keep_comments)

consume_comment(sc, start, end) == Ret(sc, NoToken)

consume_colon(sc, start, end) == Ret(sc, Token("Key", sc.line_number, start, VNone))

consume_tag(sc, start, end) ==
    Ret(sc, TagToken(sc.line_number, start, PySlice(sc.line_text, start, end),
                     get_marshaller(PySlice(sc.line_text, start, end))))

consume_anchor(sc, start, end) ==
    Ret(sc, Token("Anchor", sc.line_number, start,
                  VStr(PySlice(sc.line_text, start, end))))

consume_alias(sc, start, end) ==
    Ret(sc, Token("Alias", sc.line_number, start,
                  VStr(PySlice(sc.line_text, start, end))))

Contains(text, c) == \E i \in 1..Len(text) : text[i] = c

(* _get_literal_styled_token without its test for the two chomping        *)
(* indicators given together: the + overrides the -.                       *)
get_literal_styled_token_overriding(sc, start, original) ==
    LET minus == Contains(original, "-")
        style1 == IF minus THEN RemoveFirst(original, "-") ELSE original
        plus == Contains(style1, "+")
        style == IF plus THEN RemoveFirst(style1, "+") ELSE style1
    IN  [r |-> IF Len(original) > 3
               THEN Raise(sc, "ParseError",
                          "Invalid literal style, should be less than 3 chars",
                          None, sc.line_number, start)
               ELSE IF Len(style) = 2 /\ style[2] \notin Digits
               THEN Raise(sc, "ParseError", "Invalid literal style",
                          None, sc.line_number, start)
               ELSE IF Len(style) = 2 /\ DigitValue(style[2]) < 1
               THEN Raise(sc, "ParseError", "Indent must be between 1 and 9",
                          None, sc.line_number, start)
               ELSE IF Len(style) \notin {1, 2} \/ style[1] \notin {">", "|"}
               THEN Raise(sc, "ParseError", "Internal error, invalid style",
                          None, sc.line_number, start)
               ELSE Ret(sc, ScalarToken(sc.line_number,
                                        IF Len(style) = 2 THEN DigitValue(style[2])
                                        ELSE None,
                                        VNone, original)),
         folded |-> (style # << >> /\ style[1] = ">"),
         keep |-> IF plus THEN "True" ELSE IF minus THEN "False" ELSE "None",
         indent |-> IF Len(style) = 2 /\ style[2] \in Digits
                    THEN DigitValue(style[2]) ELSE None]

(* Scanner._get_literal_styled_token: r is the returned token or the       *)
(* ParseError; folded, keep ("None", "False" or "True") and indent are the *)
(* other three results.  original is the style as given, style what is     *)
(* left of it without the chomping indicators.                             *)
get_literal_styled_token(sc, start, original) ==
    LET minus == Contains(original, "-")
        style1 == IF minus THEN RemoveFirst(original, "-") ELSE original
        plus == Contains(style1, "+")
        style == IF plus THEN RemoveFirst(style1, "+") ELSE style1
    IN  [r |-> IF Len(original) > 3
               THEN Raise(sc, "ParseError",
                          "Invalid literal style, should be less than 3 chars",
                          None, sc.line_number, start)
               ELSE IF minus /\ plus
               THEN Raise(sc, "ParseError", "Ambiguous literal style",
                          None, sc.line_number, start)
               ELSE IF Len(style) = 2 /\ style[2] \notin Digits
               THEN Raise(sc, "ParseError", "Invalid literal style",
                          None, sc.line_number, start)
               ELSE IF Len(style) = 2 /\ DigitValue(style[2]) < 1
               THEN Raise(sc, "ParseError", "Indent must be between 1 and 9",
                          None, sc.line_number, start)
               ELSE IF Len(style) \notin {1, 2} \/ style[1] \notin {">", "|"}
               THEN Raise(sc, "ParseError", "Internal error, invalid style",
                          None, sc.line_number, start)
               ELSE Ret(sc, ScalarToken(sc.line_number,
                                        IF Len(style) = 2 THEN DigitValue(style[2])
                                        ELSE None,
                                        VNone, original)),
         folded |-> (style # << >> /\ style[1] = ">"),
         keep |-> IF plus THEN "True" ELSE IF minus THEN "False" ELSE "None",
         indent |-> IF Len(style) = 2 /\ style[2] \in Digits
                    THEN DigitValue(style[2]) ELSE None]

RECURSIVE consume_literal_loop(_, _, _, _, _, _)

(* The end of the loop of consume_literal that clips whatever the chomping *)
(* indicator is.                                                           *)
literal_chomp_clipped(sc, keep, tok, text) ==
    Ret(sc, [tok EXCEPT !.value = VStr(rstrip(text) \o << "\n" >>)])

(* The end of the loop of Scanner.consume_literal: the token takes the     *)
(* chomped text.                                                           *)
literal_chomp(sc, keep, tok, text) ==
    Ret(sc, [tok EXCEPT !.value =
                 VStr(IF keep = "None" THEN rstrip(text) \o << "\n" >>
                      ELSE IF keep = "False" THEN rstrip(text)
                      ELSE text \o << "\n" >>)])

(* The body of the loop for a non-empty line of indent i, the block's      *)
(* indent being known; value is the line past that indent.                 *)
literal_indent(sc, folded, keep, indent, tok, lines, i) ==
    LET value == PySlice(sc.line_text, indent, Len(sc.line_text))
    IN  IF i < indent THEN literal_chomp(sc, keep, tok, Join(lines, << "\n" >>))
        ELSE IF /\ folded
                /\ lines # << >>
                /\ ~StartsWith(value, << " " >>)
                /\ ~StartsWith(lines[Len(lines)], << " " >>)
        THEN consume_literal_loop(sc, folded, keep, indent, tok,
                 [lines EXCEPT ![Len(lines)] =
                     IF @ # << >> THEN @ \o << " " >> \o value ELSE value])
        ELSE consume_literal_loop(sc, folded, keep, indent, tok, Append(lines, value))

(* The body of the loop, r being what next_line(keep_comments=True) gave. *)
literal_line(r, folded, keep, indent, tok, lines) ==
    IF r.exc # "" THEN r
    ELSE IF r.sc.line_text = << >>
    THEN consume_literal_loop(r.sc, folded, keep, indent, tok, Append(lines, << >>))
    ELSE literal_indent(r.sc, folded, keep,
             IF indent # None THEN indent
             ELSE IF get_indent(r.sc.line_text) # 0 THEN get_indent(r.sc.line_text)
             ELSE 1,
             tok, lines, get_indent(r.sc.line_text))

consume_literal_loop(sc, folded, keep, indent, tok, lines) ==
    literal_line(next_line(sc, TRUE), folded, keep, indent, tok, lines)

consume_literal_styled(sc, g) ==
    IF g.r.exc # "" THEN g.r
    ELSE consume_literal_loop(sc, g.folded, g.keep, g.indent, g.r.tok, << >>)

consume_literal(sc, start, end) ==
    consume_literal_styled(sc,
        get_literal_styled_token(sc, start,
            decommented(PySlice(sc.line_text, start, Len(sc.line_text)))))

consume_flow_map_start(sc, start, end) ==
    Ret([sc EXCEPT !.flow_ender = Append(@, "}")],
        Token("FlowMappingStart", sc.line_number, start, VNone))

(* pop_flow_ender without the comparison of the popped entry with the     *)
(* expected one.                                                           *)
pop_flow_ender_unverified(sc, expected) ==
    IF sc.flow_ender = << >>
    THEN Raise(sc, "ParseError", "without corresponding opener", None, None, None)
    ELSE Ret([sc EXCEPT !.flow_ender = SubSeq(@, 1, Len(@) - 1)], NoToken)

(* Scanner.pop_flow_ender: the scanner after it, or the ParseError. *)
pop_flow_ender(sc, expected) ==
    IF sc.flow_ender = << >>
    THEN Raise(sc, "ParseError", "without corresponding opener", None, None, None)
    ELSE IF sc.flow_ender[Len(sc.flow_ender)] # expected
    THEN Raise([sc EXCEPT !.flow_ender = SubSeq(@, 1, Len(@) - 1)],
               "ParseError", "Expecting, but found", None, None, None)
    ELSE Ret([sc EXCEPT !.flow_ender = SubSeq(@, 1, Len(@) - 1)], NoToken)

(* return FlowEndToken(self.line_number, start), after pop_flow_ender *)
flow_end(r, start) ==
    IF r.exc # "" THEN r
    ELSE Ret(r.sc, Token("FlowEnd", r.sc.line_number, start, VNone))

consume_flow_map_end(sc, start, end) == flow_end(pop_flow_ender(sc, "}"), start)

consume_flow_list_start(sc, start, end) ==
    Ret([sc EXCEPT !.flow_ender = Append(@, "]")],
        Token("FlowSequenceStart", sc.line_number, start, VNone))

consume_flow_list_end(sc, start, end) == flow_end(pop_flow_ender(sc, "]"), start)

consume_comma(sc, start, end) ==
    Ret(sc, Token("FlowEntry", sc.line_number, start, VNone))

RECURSIVE consume_multiline_loop(_, _, _, _, _)

(* text[:-1] if text.endswith(style) else text[:-2] *)
multiline_cut(text, style) ==
    IF text[Len(text)] = style THEN SubSeq(text, 1, Len(text) - 1)
    ELSE SubSeq(text, 1, Len(text) - 2)

(* _consume_multiline without its except clause: the StopIteration of the  *)
(* exhausted lines goes up to Scanner.__iter__.                            *)
multiline_next_uncaught(r, tok, style, lines) ==
    IF r.exc # "" THEN r
    ELSE consume_multiline_loop(r.sc, tok, 0, style, lines)

(* The loop of Scanner._consume_multiline after the line that had no end   *)
(* of the string: r is what next_line(keep_comments=True) gave.            *)
multiline_next(r, tok, style, lines) ==
    IF r.exc = "StopIteration"
    THEN Raise(r.sc, "ParseError", "Unexpected end, runaway string at line",
               tok.line_number, None, None)
    ELSE IF r.exc # "" THEN r
    ELSE consume_multiline_loop(r.sc, tok, 0, style, lines)

(* The loop of Scanner._consume_multiline; start is the position the       *)
(* search starts at, lines is << >> while the source's lines is None (the  *)
(* source's list is never empty).                                          *)
consume_multiline_loop(sc, tok, start, style, lines) ==
    LET m == IF style = "\"" THEN RE_DOUBLE_QUOTE_END(sc.line_text, start)
             ELSE RE_SINGLE_QUOTE_END(sc.line_text, start)
    IN  IF m.found
        THEN Ret([sc EXCEPT !.line_pos = m.e1],
                 IF lines = << >>
                 THEN set_raw_text(tok,
                          multiline_cut(PySlice(sc.line_text, start, m.e1), style))
                 ELSE set_raw_lines(tok,
                          Append(lines,
                              multiline_cut(PySlice(sc.line_text, start, m.e1), style))))
        ELSE multiline_next(next_line(sc, TRUE), tok, style,
                 IF lines = << >>
                 THEN << PySlice(sc.line_text, start, Len(sc.line_text)) >>
                 ELSE Append(lines, sc.line_text))

consume_multiline(sc, start, style) ==
    consume_multiline_loop(sc, ScalarToken(sc.line_number, start, VNone, << style >>),
                           start + 1, style, << >>)

consume_double_quote(sc, start, end) == consume_multiline(sc, start, "\"")

consume_single_quote(sc, start, end) == consume_multiline(sc, start, "'")

(* self.tokenizer_map.get(c)(start, end), c being self.line_text[start],   *)
(* or the plain ScalarToken when the map has no entry for c.               *)
tokenizer_map(c, sc, start, end) ==
    CASE c = "#" -> consume_comment(sc, start, end)
      [] c = ":" -> consume_colon(sc, start, end)
      [] c = "!" -> consume_tag(sc, start, end)
      [] c = "&" -> consume_anchor(sc, start, end)
      [] c = "*" -> consume_alias(sc, start, end)
      [] c \in {">", "|"} -> consume_literal(sc, start, end)
      [] c = "{" -> consume_flow_map_start(sc, start, end)
      [] c = "}" -> consume_flow_map_end(sc, start, end)
      [] c = "[" -> consume_flow_list_start(sc, start, end)
      [] c = "]" -> consume_flow_list_end(sc, start, end)
      [] c = "," -> consume_comma(sc, start, end)
      [] c = "\"" -> consume_double_quote(sc, start, end)
      [] c = "'" -> consume_single_quote(sc, start, end)
      [] OTHER -> Ret(sc, ScalarToken(sc.line_number, start,
                          VStr(PySlice(sc.line_text, start, end)), << >>))

tokenized(sc, start, end) ==
    IF start = end THEN Ret(sc, Token("EmptyLine", sc.line_number, start, VNone))
    ELSE tokenizer_map(PyAt(sc.line_text, start), sc, start, end)

(* What Scanner.next_token has decided before it returns: either it        *)
(* returns early (the token of next_line, or its exception, in r), or it   *)
(* goes on to tokenized(start, end) with the scanner as in sc.             *)
Span(early, r, sc, start, end) ==
    [early |-> early, r |-> r, sc |-> sc, start |-> start, end |-> end]

(* Scanner.next_token from "start = self.line_pos" with m the result of    *)
(* regex.search(self.line_text, start), taken only when start < end.       *)
next_span_match(s, start, m) ==
    IF start >= s.line_size
    THEN Span(FALSE, Ret(s, NoToken), s, start, s.line_size)
    ELSE IF m.found /\ m.s1 > start
    THEN Span(FALSE, Ret(s, NoToken),
              [s EXCEPT !.pending = Append(@, << m.s2, m.e2 >>), !.line_pos = m.s2],
              start, m.s2)
    ELSE IF m.found
    THEN Span(FALSE, Ret(s, NoToken), [s EXCEPT !.line_pos = m.e2], m.s2, m.e2)
    ELSE Span(FALSE, Ret(s, NoToken), [s EXCEPT !.line_pos = s.line_size],
              start, s.line_size)

(* Scanner.next_token after its call of next_line, nl being that call's    *)
(* result (or the untouched scanner when the line was not used up).        *)
next_span_line(nl, flow) ==
    IF nl.exc # "" \/ nl.tok # NoToken
    THEN Span(TRUE, nl, nl.sc, None, None)
    ELSE next_span_match(nl.sc, nl.sc.line_pos,
             IF nl.sc.line_pos >= nl.sc.line_size
             THEN [found |-> FALSE, s1 |-> None, s2 |-> None, e2 |-> None]
             ELSE IF flow THEN RE_FLOW_SEP(nl.sc.line_text, nl.sc.line_pos)
             ELSE RE_BLOCK_SEP(nl.sc.line_text, nl.sc.line_pos))

(* Scanner.next_token without self.pending.pop(): the pending span is read *)
(* and stays.                                                              *)
next_span_pending_kept(sc, span) ==
    Span(FALSE, Ret(sc, NoToken), [sc EXCEPT !.line_pos = span[2]], span[1], span[2])
(* self.pending.pop() at the head of Scanner.next_token *)
next_span_pending(sc, span) ==
    Span(FALSE, Ret(sc, NoToken),
         [sc EXCEPT !.pending = SubSeq(@, 1, Len(@) - 1), !.line_pos = span[2]],
         span[1], span[2])

(* The first half of Scanner.next_token(regex), the regex being            *)
(* RE_FLOW_SEP when flow is TRUE and RE_BLOCK_SEP otherwise.               *)
next_span(sc, flow) ==
    IF sc.pending # << >> THEN next_span_pending(sc, sc.pending[Len(sc.pending)])
    ELSE next_span_line(IF sc.line_pos >= sc.line_size THEN next_line(sc, FALSE)
                        ELSE Ret(sc, NoToken),
                        flow)

next_token_span(sp) ==
    IF sp.early THEN sp.r ELSE tokenized(sp.sc, sp.start, sp.end)

(* Scanner.next_token *)
next_token(sc, flow) == next_token_span(next_span(sc, flow))

-----------------------------------------------------------------------------
(* str(value) and repr(value) of Python, which ParseNode.set_value uses    *)
(* through the "%s %s" format, and the marshallers through str().          *)
RECURSIVE EscapeRepr(_, _)
EscapeRepr(text, quote) ==
    IF text = << >> THEN << >>
    ELSE (IF text[1] = "\\" THEN << "\\", "\\" >>
          ELSE IF text[1] = "\n" THEN << "\\", "n" >>
          ELSE IF text[1] = quote THEN << "\\", quote >>
          ELSE << text[1] >>) \o EscapeRepr(Tail(text), quote)

ReprStr(text) ==
    LET hasSingle == \E i \in 1..Len(text) : text[i] = "'"
        hasDouble == \E i \in 1..Len(text) : text[i] = "\""
    IN  IF hasSingle /\ ~hasDouble
        THEN << "\"" >> \o EscapeRepr(text, "\"") \o << "\"" >>
        ELSE << "'" >> \o EscapeRepr(text, "'") \o << "'" >>

RECURSIVE Repr(_)
RECURSIVE ReprItems(_, _)
ReprItems(items, isDict) ==
    IF items = << >> THEN << >>
    ELSE IF isDict
    THEN Repr(items[1]) \o << ":", " " >> \o Repr(items[2])
         \o (IF Len(items) > 2 THEN << ",", " " >> ELSE << >>)
         \o ReprItems(SubSeq(items, 3, Len(items)), isDict)
    ELSE Repr(items[1])
         \o (IF Len(items) > 1 THEN << ",", " " >> ELSE << >>)
         \o ReprItems(Tail(items), isDict)

Repr(v) ==
    CASE v.t = "none" -> << "N", "o", "n", "e" >>
      [] v.t = "str" -> ReprStr(v.s)
      [] v.t = "int" -> v.s
      [] v.t = "bool" -> v.s
      [] v.t = "list" -> << "[" >> \o ReprItems(v.items, FALSE) \o << "]" >>
      [] v.t = "dict" -> << "{" >> \o ReprItems(v.items, TRUE) \o << "}" >>
      [] v.t = "set" ->
            IF v.items = << >> THEN << "s", "e", "t", "(", ")" >>
            ELSE << "{" >> \o ReprItems(v.items, FALSE) \o << "}" >>

Str(v) == IF v.t = "str" THEN v.s ELSE Repr(v)

(* target[key] = value on the k1, v1, k2, v2, ... form of a dict. *)
DictSet(kvs, key, value) ==
    LET S == {i \in 1..(Len(kvs) \div 2) : kvs[2 * i - 1] = key}
    IN  IF S = {} THEN kvs \o << key, value >>
        ELSE [kvs EXCEPT ![2 * Min(S)] = value]

(* RootNode.anchors, a dict, as the sequence of its [name, value] entries: *)
(* anchors.get(name) and anchors[name] = value.                            *)
AnchorsGet(a, name) ==
    LET S == {i \in 1..Len(a) : a[i].name = name}
    IN  IF S = {} THEN VNone ELSE a[Min(S)].value

AnchorsSet(a, name, value) ==
    LET S == {i \in 1..Len(a) : a[i].name = name}
    IN  IF S = {} THEN Append(a, [name |-> name, value |-> value])
        ELSE [a EXCEPT ![Min(S)].value = value]

-----------------------------------------------------------------------------
(* The parse nodes (ParseNode and ListNode, MapNode, ScalarNode).  The     *)
(* prev links are the order of the stack RootNode.head.  anchor_token is   *)
(* NoToken for None, marshaller "None" for None.                           *)

get_min(v1, v2) ==
    IF v1 = None THEN v2
    ELSE IF v2 = None THEN v1
    ELSE IF v1 < v2 THEN v1 ELSE v2

(* ParseNode.__init__ without root.marshaller = None: the new node takes   *)
(* the pending marshaller and the root keeps it.                           *)
NewNode_copying(root, cls, indent) ==
    LET tagged == root.marshaller # "None"
    IN  [node |-> [cls |-> cls,
                   indent |-> IF tagged THEN get_min(indent, root.tag_indent)
                              ELSE indent,
                   marshaller |-> root.marshaller,
                   is_temp |-> FALSE,
                   needs_apply |-> FALSE,
                   last_value |-> VNone,
                   last_key |-> VNone,
                   target |-> VNone,
                   anchor_token |-> NoToken],
         root |-> root]
(* ParseNode.__init__ and its subclasses: the new node, and the root it    *)
(* took the pending marshaller from.                                       *)
NewNode(root, cls, indent) ==
    LET tagged == root.marshaller # "None"
    IN  [node |-> [cls |-> cls,
                   indent |-> IF tagged THEN get_min(indent, root.tag_indent)
                              ELSE indent,
                   marshaller |-> root.marshaller,
                   is_temp |-> FALSE,
                   needs_apply |-> FALSE,
                   last_value |-> VNone,
                   last_key |-> VNone,
                   target |-> VNone,
                   anchor_token |-> NoToken],
         root |-> IF tagged
                  THEN [root EXCEPT !.marshaller = "None", !.tag_indent = None]
                  ELSE root]

(* ParseNode.set_value *)
node_set_value(node, value) ==
    [node EXCEPT !.needs_apply = TRUE,
                 !.last_value =
                     IF node.last_value = VNone THEN value
                     ELSE IF value # VNone
                     THEN VStr(Str(node.last_value) \o << " " >> \o Str(value))
                     ELSE node.last_value]

(* ListNode.apply, MapNode.apply, ScalarNode.apply *)
apply(node) ==
    CASE node.cls = "ListNode" ->
            [node EXCEPT !.target = VList((IF @ = VNone THEN << >> ELSE @.items)
                                          \o << node.last_value >>),
                         !.last_value = VNone,
                         !.needs_apply = FALSE]
      [] node.cls = "MapNode" ->
            [node EXCEPT !.target = VDict(DictSet(IF @ = VNone THEN << >> ELSE @.items,
                                                  node.last_key, node.last_value)),
                         !.last_key = VNone,
                         !.last_value = VNone,
                         !.needs_apply = FALSE]
      [] node.cls = "ScalarNode" ->
            [node EXCEPT !.target = node.last_value,
                         !.last_value = VNone,
                         !.needs_apply = FALSE]

(* ParseNode.auto_apply: the node after it, and the anchors of the root. *)
node_auto_apply(node, anchs) ==
    LET bound == node.anchor_token # NoToken
        n1 == IF bound THEN [node EXCEPT !.anchor_token = NoToken] ELSE node
    IN  [node |-> IF n1.needs_apply THEN apply(n1) ELSE n1,
         anchors |-> IF bound
                     THEN AnchorsSet(anchs, node.anchor_token.value.s, node.last_value)
                     ELSE anchs]

-----------------------------------------------------------------------------
(* The marshallers (class Marshaller and its subclasses).  A result is the *)
(* value in v, or the exception raised in exc with its message in msg.     *)
MOk(v) == [v |-> v, exc |-> "", msg |-> ""]

MRaise(exc, msg) == [v |-> VNone, exc |-> exc, msg |-> msg]

(* str.lower *)
lower(text) ==
    LET upper == << "A", "B", "C", "D", "E", "F", "G", "H", "I", "J", "K", "L", "M",
                    "N", "O", "P", "Q", "R", "S", "T", "U", "V", "W", "X", "Y", "Z" >>
        lowered == << "a", "b", "c", "d", "e", "f", "g", "h", "i", "j", "k", "l", "m",
                      "n", "o", "p", "q", "r", "s", "t", "u", "v", "w", "x", "y", "z" >>
    IN  [i \in 1..Len(text) |->
            IF \E j \in 1..26 : upper[j] = text[i]
            THEN lowered[CHOOSE j \in 1..26 : upper[j] = text[i]]
            ELSE text[i]]

RECURSIVE StripZeros(_)
StripZeros(digits) ==
    IF Len(digits) > 1 /\ digits[1] = "0" THEN StripZeros(Tail(digits)) ELSE digits

(* int(value): a str of an optional sign and digits, between optional      *)
(* whitespace, gives the number (kept as its canonical decimal text);      *)
(* other text raises ValueError, None raises TypeError.                    *)
PyInt(value) ==
    LET text == strip(value.s)
        signed == text # << >> /\ text[1] \in {"+", "-"}
        digits == IF signed THEN Tail(text) ELSE text
        canon == StripZeros(digits)
    IN  IF value.t = "int" THEN MOk(value)
        ELSE IF value.t = "bool"
        THEN MOk([t |-> "int", s |-> IF value.s = << "T", "r", "u", "e" >>
                                     THEN << "1" >> ELSE << "0" >>, items |-> << >>])
        ELSE IF value.t # "str"
        THEN MRaise("TypeError", "int() argument must be a string or a number")
        ELSE IF digits = << >> \/ \E i \in 1..Len(digits) : digits[i] \notin Digits
        THEN MRaise("ValueError", "invalid literal for int() with base 10")
        ELSE MOk([t |-> "int",
                  s |-> IF signed /\ text[1] = "-" /\ canon # << "0" >>
                        THEN << "-" >> \o canon ELSE canon,
                  items |-> << >>])

VBool(b) ==
    [t |-> "bool",
     s |-> IF b THEN << "T", "r", "u", "e" >> ELSE << "F", "a", "l", "s", "e" >>,
     items |-> << >>]

(* dict.update over the dicts of a list, for MapMarshaller. *)
RECURSIVE DictUpdate(_, _)
DictUpdate(kvs, more) ==
    IF more = << >> THEN kvs
    ELSE DictUpdate(DictSet(kvs, more[1], more[2]), SubSeq(more, 3, Len(more)))

RECURSIVE MergeDicts(_, _)
MergeDicts(kvs, dicts) ==
    IF dicts = << >> THEN kvs
    ELSE MergeDicts(DictUpdate(kvs, dicts[1].items), Tail(dicts))

(* The keys of a dict, in insertion order. *)
DictKeys(kvs) == [i \in 1..(Len(kvs) \div 2) |-> kvs[2 * i - 1]]

(* BoolMarshaller._marshalled that compares the text as it is written. *)
bool_marshalled_exact(value) ==
    IF Str(value) \in { << "f", "a", "l", "s", "e" >>, << "n" >>,
                        << "n", "o" >>, << "o", "f", "f" >> }
    THEN MOk(VBool(FALSE))
    ELSE IF Str(value) \in { << "t", "r", "u", "e" >>, << "y" >>,
                             << "y", "e", "s" >>, << "o", "n" >> }
    THEN MOk(VBool(TRUE))
    ELSE MRaise("ParseError", "is not a boolean")

(* BoolMarshaller._marshalled *)
bool_marshalled(value) ==
    LET text == lower(Str(value))
    IN  IF text \in { << "f", "a", "l", "s", "e" >>, << "n" >>,
                      << "n", "o" >>, << "o", "f", "f" >> }
        THEN MOk(VBool(FALSE))
        ELSE IF text \in { << "t", "r", "u", "e" >>, << "y" >>,
                           << "y", "e", "s" >>, << "o", "n" >> }
        THEN MOk(VBool(TRUE))
        ELSE MRaise("ParseError", "is not a boolean")

(* marshaller.marshalled(value) for the registered marshaller named m. *)
marshaller_marshalled(m, value) ==
    CASE m = "map" ->
            IF value.t = "dict" THEN MOk(value)
            ELSE IF value.t = "list"
                    /\ \A i \in 1..Len(value.items) : value.items[i].t = "dict"
            THEN MOk(VDict(MergeDicts(<< >>, value.items)))
            ELSE MRaise("ParseError", "not a map")
      [] m = "seq" ->
            IF value.t = "list" THEN MOk(value)
            ELSE IF value.t = "dict" THEN MOk(VList(value.items))
            ELSE MRaise("ParseError", "not a list or map")
      [] m = "set" ->
            IF value.t = "dict"
            THEN MOk([t |-> "set", s |-> << >>, items |-> DictKeys(value.items)])
            ELSE MRaise("ParseError", "not a map, !!set applies to maps")
      [] m \in {"scalar", "str", "int", "null", "bool"} ->
            IF value.t = "list"
            THEN MRaise("ParseError", "scalar needed, got list instead")
            ELSE IF value.t = "dict"
            THEN MRaise("ParseError", "scalar needed, got map instead")
            ELSE CASE m = "scalar" -> MOk(value)
                   [] m = "str" -> MOk(VStr(Str(value)))
                   [] m = "int" -> PyInt(value)
                   [] m = "null" -> MOk(VNone)
                   [] m = "bool" -> bool_marshalled(value)

(* ParseNode.marshalled and RootNode.marshalled: the holder's marshaller   *)
(* applied to value, if it has one.                                        *)
marshalled(m, value) ==
    IF m # "None" THEN marshaller_marshalled(m, value) ELSE MOk(value)

-----------------------------------------------------------------------------
(* RootNode methods.  root is the record of the root's fields, head being  *)
(* the stack of open nodes (head[Len(head)] is the source's self.head, the *)
(* node below it its prev).  A result is the root after the call, or the   *)
(* exception raised in exc with its message in msg.  A method that goes on *)
(* from the result of a call is split at that call.                        *)
BOk(root) == [root |-> root, exc |-> "", msg |-> ""]

BRaise(root, exc, msg) == [root |-> root, exc |-> exc, msg |-> msg]

Top(root) == root.head[Len(root.head)]

SetTop(root, node) == [root EXCEPT !.head[Len(root.head)] = node]

(* RootNode.set_value *)
root_set_value(root, value) ==
    LET m == marshalled(root.marshaller, value)
    IN  IF m.exc # "" THEN BRaise([root EXCEPT !.doc_consumed = TRUE], m.exc, m.msg)
        ELSE BOk([root EXCEPT !.doc_consumed = TRUE,
                              !.marshaller = "None",
                              !.docs = Append(@, m.v)])

(* RootNode.auto_apply *)
root_auto_apply(root) ==
    IF root.head = << >> THEN root
    ELSE LET a == node_auto_apply(Top(root), root.anchors)
         IN  [root EXCEPT !.head[Len(root.head)] = a.node, !.anchors = a.anchors]

(* RootNode.pop from "if self.head": root has the node popped, m is what   *)
(* popped.marshalled(popped.target) gave.                                  *)
pop_marshalled(root, m) ==
    IF m.exc # "" THEN BRaise(root, m.exc, m.msg)
    ELSE IF root.head # << >>
    THEN BOk(root_auto_apply(SetTop(root, node_set_value(Top(root), m.v))))
    ELSE root_set_value(root, m.v)

(* RootNode.pop without popped.auto_apply(): what the node staged is not   *)
(* stored before its target goes on.                                       *)
pop_unapplied(root) ==
    IF root.head = << >>
    THEN BRaise(root, "AttributeError", "'NoneType' object has no attribute 'prev'")
    ELSE pop_marshalled([root EXCEPT !.head = SubSeq(@, 1, Len(@) - 1)],
                        marshalled(Top(root).marshaller, Top(root).target))
(* RootNode.pop *)
pop(root) ==
    IF root.head = << >>
    THEN BRaise(root, "AttributeError", "'NoneType' object has no attribute 'prev'")
    ELSE LET a == node_auto_apply(Top(root), root.anchors)
         IN  pop_marshalled([root EXCEPT !.head = SubSeq(@, 1, Len(@) - 1),
                                         !.anchors = a.anchors],
                            marshalled(a.node.marshaller, a.node.target))

RECURSIVE pop_while_head(_)

pop_while_head_popped(p) == IF p.exc # "" THEN p ELSE pop_while_head(p.root)

(* while self.head: self.pop() *)
pop_while_head(root) ==
    IF root.head = << >> THEN BOk(root) ELSE pop_while_head_popped(pop(root))

(* pop_doc that leaves the open nodes on the stack. *)
pop_doc_keeps_open(root) == BOk(root)

(* RootNode.pop_doc *)
pop_doc(root) ==
    IF root.head # << >> THEN pop_while_head(root)
    ELSE IF ~root.doc_consumed THEN root_set_value(root, VStr(<< >>))
    ELSE BOk(root)

(* needs_new_node that never finds the head fit to take the entry. *)
needs_new_node_always(root, indent, node_type) == TRUE

(* RootNode.needs_new_node *)
needs_new_node(root, indent, node_type) ==
    IF root.head = << >> \/ Top(root).cls # node_type THEN TRUE
    ELSE IF indent = None THEN Top(root).indent # None
    ELSE IF Top(root).indent = None THEN FALSE
    ELSE indent > Top(root).indent

(* RootNode.needs_pop with >= for >: a head of the token's own indent is   *)
(* popped as well.                                                         *)
needs_pop_at_equal(root, indent) ==
    IF indent = None \/ root.head = << >> \/ Top(root).indent = None THEN FALSE
    ELSE Top(root).indent >= indent
(* RootNode.needs_pop *)
needs_pop(root, indent) ==
    IF indent = None \/ root.head = << >> \/ Top(root).indent = None THEN FALSE
    ELSE Top(root).indent > indent

RECURSIVE push_pop_loop(_, _)

push_pop_popped(p, node) == IF p.exc # "" THEN p ELSE push_pop_loop(p.root, node)

(* while node.indent < self.head.indent: self.pop(), of RootNode.push *)
push_pop_loop(root, node) ==
    IF root.head = << >>
    THEN BRaise(root, "AttributeError", "'NoneType' object has no attribute 'indent'")
    ELSE IF Top(root).indent = None
    THEN BRaise(root, "TypeError", "'<' not supported between 'int' and 'NoneType'")
    ELSE IF node.indent < Top(root).indent THEN push_pop_popped(pop(root), node)
    ELSE BOk(root)

(* node.prev = self.head; self.head = node, after the loop of push gave p *)
push_after(p, node) ==
    IF p.exc # "" THEN p ELSE BOk([p.root EXCEPT !.head = Append(@, node)])

(* RootNode.push *)
push(root, node) ==
    IF root.head # << >>
    THEN IF Top(root).indent = None
         THEN BOk([root EXCEPT !.head =
                      Append(@, [node EXCEPT !.is_temp = (node.indent # None)])])
         ELSE IF node.indent # None
         THEN push_after(push_pop_loop(root, node), node)
         ELSE BOk([root EXCEPT !.head = Append(@, node)])
    ELSE BOk([root EXCEPT !.doc_consumed = FALSE, !.head = << node >>])

(* self.push(cls(self, indent)), n being what the constructor gave *)
push_node(n) == push(n.root, n.node)

push_new(root, cls, indent) == push_node(NewNode(root, cls, indent))

RECURSIVE pop_while_needed(_, _)

pop_needed_popped(p, indent) ==
    IF p.exc # "" THEN p ELSE pop_while_needed(p.root, indent)

(* while self.needs_pop(indent): self.pop(), of RootNode.ensure_node *)
pop_while_needed(root, indent) ==
    IF needs_pop(root, indent) THEN pop_needed_popped(pop(root), indent)
    ELSE BOk(root)

(* self.auto_apply() at the end of RootNode.ensure_node, q being what the  *)
(* push gave.                                                              *)
ensure_pushed(q) == IF q.exc # "" THEN q ELSE BOk(root_auto_apply(q.root))

(* ensure_node that leaves what the head holds unapplied when the head    *)
(* fits the entry.                                                         *)
ensure_popped_unapplied(p, indent, node_type) ==
    IF p.exc # "" THEN p
    ELSE IF needs_new_node(p.root, indent, node_type)
    THEN IF /\ node_type = "ListNode"
            /\ p.root.head # << >>
            /\ Top(p.root).indent # None
            /\ indent # None
            /\ indent < Top(p.root).indent
         THEN BRaise(p.root, "ParseError", "Line should be indented at least")
         ELSE ensure_pushed(push_new(p.root, node_type, indent))
    ELSE BOk(p.root)

(* RootNode.ensure_node after its loop gave p. *)
ensure_popped(p, indent, node_type) ==
    IF p.exc # "" THEN p
    ELSE IF needs_new_node(p.root, indent, node_type)
    THEN IF /\ node_type = "ListNode"
            /\ p.root.head # << >>
            /\ Top(p.root).indent # None
            /\ indent # None
            /\ indent < Top(p.root).indent
         THEN BRaise(p.root, "ParseError", "Line should be indented at least")
         ELSE ensure_pushed(push_new(p.root, node_type, indent))
    ELSE BOk(root_auto_apply(p.root))

(* RootNode.ensure_node *)
ensure_node(root, indent, node_type) ==
    ensure_popped(pop_while_needed(root, indent), indent, node_type)

(* MapNode.set_key, and ParseNode.set_key for the other nodes *)
set_key(root, key) ==
    IF Top(root).cls # "MapNode"
    THEN BRaise(root, "ParseError", "Key not allowed here")
    ELSE IF Top(root).last_key # VNone
    THEN BRaise(root, "ParseError", "Internal error, previous key was not consumed")
    ELSE BOk(SetTop(root, [Top(root) EXCEPT !.last_key = key, !.needs_apply = TRUE]))

(* self.head.set_key(key) of RootNode.push_key, e being what ensure_node   *)
(* gave.                                                                   *)
push_key_ensured(e, key) == IF e.exc # "" THEN e ELSE set_key(e.root, key)

(* RootNode.push_key *)
push_key(root, indent, key) ==
    push_key_ensured(ensure_node(root, indent, "MapNode"), key)

(* if self.head.is_temp: self.pop(), of RootNode.push_value *)
push_value_temp(root) == IF Top(root).is_temp THEN pop(root) ELSE BOk(root)

(* self.head.set_value(value) of RootNode.push_value, p being what the     *)
(* push gave (or the untouched root when there was a head).                *)
push_value_set(p, value) ==
    IF p.exc # "" THEN p
    ELSE push_value_temp(SetTop(p.root, node_set_value(Top(p.root), value)))

(* RootNode.push_value *)
push_value(root, indent, value) ==
    LET m == marshalled(root.marshaller, value)
    IN  IF m.exc # "" THEN BRaise(root, m.exc, m.msg)
        ELSE push_value_set(IF root.head = << >>
                            THEN push_new([root EXCEPT !.marshaller = "None"],
                                          "ScalarNode", indent)
                            ELSE BOk([root EXCEPT !.marshaller = "None"]),
                            m.v)

(* RootNode.set_anchor *)
set_anchor(root, tok) ==
    IF root.head = << >>
    THEN BRaise(root, "AttributeError",
                "'NoneType' object has no attribute 'anchor_token'")
    ELSE BOk(SetTop(root, [Top(root) EXCEPT !.anchor_token = tok]))

(* TagToken.consume_token *)
set_tag(root, tok) ==
    IF root.marshaller # "None"
    THEN BRaise(root, "ParseError", "2 consecutive tags given")
    ELSE BOk([root EXCEPT !.marshaller = tok.marshaller, !.tag_indent = tok.indent])

(* AliasToken.consume_token *)
alias_value(root, tok) ==
    push_value(root, tok.indent, AnchorsGet(root.anchors, tok.value.s))

(* simplified without its test of the length: the list whatever it holds. *)
simplified_always_list(ds) == VList(ds)

(* simplified(docs), on the list RootNode.deserialized passes it *)
simplified(ds) == IF Len(ds) = 1 THEN ds[1] ELSE VList(ds)
-----------------------------------------------------------------------------
(* default_marshal, the plain-scalar coercion, and its regex RE_TYPED.     *)
AllDigits(text) == \A i \in 1..Len(text) : text[i] \in Digits

(* RE_TYPED.match(text): false, true, null (in any case) or a number: an   *)
(* optional sign, digits with an optional point before the last run of     *)
(* digits, and an optional exponent.                                       *)
RE_TYPED(text) ==
    LET signed == text # << >> /\ text[1] \in {"-", "+"}
        body == IF signed THEN Tail(text) ELSE text
        E == {i \in 1..Len(body) : body[i] \in {"e", "E"}}
        mant == IF E = {} THEN body ELSE SubSeq(body, 1, Min(E) - 1)
        exp == IF E = {} THEN << >> ELSE SubSeq(body, Min(E) + 1, Len(body))
        expDigits == IF exp # << >> /\ exp[1] \in {"-", "+"} THEN Tail(exp) ELSE exp
        P == {i \in 1..Len(mant) : mant[i] = "."}
        mantOk == IF P = {} THEN mant # << >> /\ AllDigits(mant)
                  ELSE /\ AllDigits(SubSeq(mant, 1, Min(P) - 1))
                       /\ Min(P) < Len(mant)
                       /\ AllDigits(SubSeq(mant, Min(P) + 1, Len(mant)))
    IN  \/ lower(text) \in { << "f", "a", "l", "s", "e" >>, << "t", "r", "u", "e" >>,
                             << "n", "u", "l", "l" >> }
        \/ /\ mantOk
           /\ E # {} => (expDigits # << >> /\ AllDigits(expDigits))

NULL == { << "n", "u", "l", "l" >>, << "~" >> }

default_marshal(value) ==
    LET stripped == strip(value.s)
        text == lower(stripped)
        i == PyInt(VStr(text))
    IN  IF value.t # "str" THEN value
        ELSE IF stripped = << >> THEN value
        ELSE IF ~RE_TYPED(stripped) THEN VStr(stripped)
        ELSE IF text \in NULL THEN VNone
        ELSE IF text = << "f", "a", "l", "s", "e" >> THEN VBool(FALSE)
        ELSE IF text = << "t", "r", "u", "e" >> THEN VBool(TRUE)
        ELSE IF i.exc = "" THEN i.v
        ELSE [t |-> "float", s |-> text, items |-> << >>]

-----------------------------------------------------------------------------
(* The inputs: every buffer of at most MaxLines lines drawn from LineSet.  *)
MaxLines == 2

LineSet ==
    { << "a", ":", " ", "1" >>,
      << "b", "c", ":", " ", "2" >>,
      << "-", " ", "1" >>,
      << "-", " ", "b" >>,
      << "-", "-", "-", " ", "a" >>,
      << "-", "-", "-", " ", "b" >>,
      << "-", "-", "-" >>,
      << ".", ".", "." >>,
      << "a", ":", " ", "&", "x", " ", "7" >>,
      << "b", ":", " ", "*", "x" >>,
      << "-", " ", "&", "x", " ", "7" >>,
      << "-", " ", "*", "x" >>,
      << "[" >>,
      << "]" >>,
      << "{" >>,
      << "}" >>,
      << "[", "a", ",", " ", "b", "]" >>,
      << >>,
      << "#", " ", "c" >>,
      << "a", " ", "#", " ", "c" >>,
      << "%", "d" >>,
      << "!", "!", "s", "t", "r", " ", "a" >> }

RECURSIVE Buffers(_)
Buffers(n) ==
    IF n = 0 THEN { << >> }
    ELSE LET shorter == Buffers(n - 1)
         IN  shorter \cup {Append(b, l) : b \in shorter, l \in LineSet}

Inputs == Buffers(MaxLines)

-----------------------------------------------------------------------------
(* The state machine: load_string(buffer), that is                         *)
(* RootNode().deserialized(Scanner(buffer)): each step is one pass of the  *)
(* loop of Scanner.__iter__ together with the consume_token call that      *)
(* RootNode.deserialized makes on the token the pass yields.               *)
Scanner ==
    [gen |-> gen, line_number |-> line_number, line_pos |-> line_pos,
     line_size |-> line_size, line_text |-> line_text, pending |-> pending,
     flow_ender |-> flow_ender]

RootNode ==
    [docs |-> docs, head |-> head, marshaller |-> marshaller,
     tag_indent |-> tag_indent, doc_consumed |-> doc_consumed, anchors |-> anchors]

NoError ==
    [type |-> "", by |-> "", msg |-> "", marg |-> None,
     line_number |-> None, indent |-> None]

(* Scanner.__init__ and RootNode.__init__ *)
Init ==
    /\ buffer \in Inputs
    /\ gen = [next |-> 1, lines |-> buffer]
    /\ line_number = None
    /\ line_pos = 0
    /\ line_size = 0
    /\ line_text = << >>
    /\ pending = << >>
    /\ flow_ender = << >>
    /\ token = NoToken
    /\ tokens = << >>
    /\ docs = << >>
    /\ head = << >>
    /\ marshaller = "None"
    /\ tag_indent = None
    /\ doc_consumed = TRUE
    /\ anchors = << >>
    /\ pc = "start"
    /\ error = NoError
    /\ result = VNone

(* The scanner's fields become those of sc. *)
SetScanner(sc) ==
    /\ gen' = sc.gen
    /\ line_number' = sc.line_number
    /\ line_pos' = sc.line_pos
    /\ line_size' = sc.line_size
    /\ line_text' = sc.line_text
    /\ pending' = sc.pending
    /\ flow_ender' = sc.flow_ender

(* The root's fields become those of root. *)
SetRootNode(root) ==
    /\ docs' = root.docs
    /\ head' = root.head
    /\ marshaller' = root.marshaller
    /\ tag_indent' = root.tag_indent
    /\ doc_consumed' = root.doc_consumed
    /\ anchors' = root.anchors

(* An exception of consume_token ends the run, and it reaches the caller   *)
(* of load as raised: Scanner.__iter__ is suspended at its yield and       *)
(* completes nothing.                                                      *)
BuilderError(b) ==
    [type |-> b.exc, by |-> "builder", msg |-> b.msg, marg |-> None,
     line_number |-> None, indent |-> None]

(* RootNode.deserialized: the token tok is yielded and consumed, b being   *)
(* what its consume_token gave.                                            *)
Consume(tok, b) ==
    /\ tokens' = Append(tokens, tok)
    /\ SetRootNode(b.root)
    /\ pc' = IF b.exc # "" THEN "error" ELSE "run"
    /\ error' = IF b.exc # "" THEN BuilderError(b) ELSE error
    /\ result' = result

(* Scanner.__iter__: yield StreamStartToken(1, 0); the token's             *)
(* consume_token is the empty one of class Token.                          *)
StreamStart ==
    /\ pc = "start"
    /\ Consume(Token("StreamStart", 1, 0, VNone), BOk(RootNode))
    /\ UNCHANGED << buffer, gen, line_number, line_pos, line_size, line_text,
                    pending, flow_ender, token >>

(* The call of next_token that Scanner.__iter__ makes next. *)
Scanned == next_token(Scanner, flow_ender # << >>)

(* Scanner.__iter__: next_token returned r with a token of the given kind, *)
(* which is yielded; b is what the token's consume_token gave.             *)
Yield(r, b) ==
    /\ SetScanner(r.sc)
    /\ token' = r.tok
    /\ Consume(r.tok, b)
    /\ UNCHANGED buffer

Returned(r, kind) == pc = "run" /\ r.exc = "" /\ r.tok.kind = kind

(* ScalarToken.consume_token *)
ScalarYield(r) ==
    Returned(r, "Scalar") /\ Yield(r, push_value(RootNode, r.tok.indent, r.tok.value))

(* KeyToken.consume_token *)
KeyYield(r) ==
    Returned(r, "Key") /\ Yield(r, push_key(RootNode, r.tok.indent, r.tok.value))

(* BlockEntryToken.consume_token *)
BlockEntryYield(r) ==
    /\ Returned(r, "BlockEntry")
    /\ Yield(r, ensure_node(RootNode, r.tok.indent, "ListNode"))

(* DocumentStartToken.consume_token *)
DocumentStartYield(r) == Returned(r, "DocumentStart") /\ Yield(r, pop_doc(RootNode))

(* DocumentEndToken.consume_token *)
DocumentEndYield(r) == Returned(r, "DocumentEnd") /\ Yield(r, pop_doc(RootNode))

(* DirectiveToken has the empty consume_token of class Token. *)
DirectiveYield(r) == Returned(r, "Directive") /\ Yield(r, BOk(RootNode))

(* EmptyLineToken.consume_token *)
EmptyLineYield(r) == Returned(r, "EmptyLine") /\ Yield(r, BOk(RootNode))

(* AnchorToken.consume_token *)
AnchorYield(r) == Returned(r, "Anchor") /\ Yield(r, set_anchor(RootNode, r.tok))

(* AliasToken.consume_token *)
AliasYield(r) == Returned(r, "Alias") /\ Yield(r, alias_value(RootNode, r.tok))

(* TagToken.consume_token *)
TagYield(r) == Returned(r, "Tag") /\ Yield(r, set_tag(RootNode, r.tok))

(* FlowMappingStartToken.consume_token *)
FlowMappingStartYield(r) ==
    Returned(r, "FlowMappingStart") /\ Yield(r, push_new(RootNode, "MapNode", None))

(* FlowSequenceStartToken.consume_token *)
FlowSequenceStartYield(r) ==
    Returned(r, "FlowSequenceStart") /\ Yield(r, push_new(RootNode, "ListNode", None))

(* FlowEndToken.consume_token *)
FlowEndYield(r) == Returned(r, "FlowEnd") /\ Yield(r, pop(RootNode))

(* FlowEntryToken.consume_token *)
FlowEntryYield(r) ==
    Returned(r, "FlowEntry") /\ Yield(r, BOk(root_auto_apply(RootNode)))

(* Scanner.__iter__: next_token returned None (a comment), nothing is      *)
(* yielded.                                                                *)
NoneSkipped(r) ==
    /\ pc = "run"
    /\ r.exc = ""
    /\ r.tok = NoToken
    /\ SetScanner(r.sc)
    /\ token' = NoToken
    /\ UNCHANGED << buffer, tokens, docs, head, marshaller, tag_indent,
                    doc_consumed, anchors, pc, error, result >>

(* RootNode.deserialized once the generator is exhausted: StreamEndToken's *)
(* consume_token gave b, and simplified(self.docs) is returned.            *)
Finish(tok, b) ==
    /\ tokens' = Append(tokens, tok)
    /\ SetRootNode(b.root)
    /\ pc' = IF b.exc # "" THEN "error" ELSE "done"
    /\ error' = IF b.exc # "" THEN BuilderError(b) ELSE error
    /\ result' = IF b.exc # "" THEN result ELSE simplified(b.root.docs)

(* The end of the lines without the yield of StreamEndToken: the           *)
(* generator just ends, and deserialized returns what it has.              *)
StreamEndUnyielded(r) ==
    /\ pc = "run"
    /\ r.exc = "StopIteration"
    /\ SetScanner(r.sc)
    /\ pc' = "done"
    /\ result' = simplified(docs)
    /\ UNCHANGED << buffer, token, tokens, docs, head, marshaller, tag_indent,
                    doc_consumed, anchors, error >>

(* Scanner.__iter__: except StopIteration: yield StreamEndToken *)
StreamEnd(r) ==
    /\ pc = "run"
    /\ r.exc = "StopIteration"
    /\ SetScanner(r.sc)
    /\ token' = token
    /\ Finish(Token("StreamEnd", r.sc.line_number, 0, VNone), pop_doc(RootNode))
    /\ UNCHANGED buffer

(* ParseError.complete *)
complete(e, ln, indent) ==
    [e EXCEPT !.line_number = IF @ = None THEN ln ELSE @,
              !.indent = IF @ = None THEN indent ELSE @]

(* ParseError.__init__ of the error that next_token raised in r *)
ParseError(r) ==
    [type |-> "ParseError", by |-> "scanner", msg |-> r.msg, marg |-> r.marg,
     line_number |-> r.eline, indent |-> r.eindent]

(* Scanner.__iter__: except ParseError: complete the error and re-raise *)
ScannerError(r) ==
    /\ pc = "run"
    /\ r.exc = "ParseError"
    /\ SetScanner(r.sc)
    /\ pc' = "error"
    /\ error' = complete(IF token # NoToken
                         THEN complete(ParseError(r), token.line_number, token.indent)
                         ELSE ParseError(r),
                         r.sc.line_number, r.sc.line_pos)
    /\ UNCHANGED << buffer, token, tokens, docs, head, marshaller, tag_indent,
                    doc_consumed, anchors, result >>

Next ==
    \/ StreamStart
    \/ ScalarYield(Scanned)
    \/ KeyYield(Scanned)
    \/ BlockEntryYield(Scanned)
    \/ DocumentStartYield(Scanned)
    \/ DocumentEndYield(Scanned)
    \/ DirectiveYield(Scanned)
    \/ EmptyLineYield(Scanned)
    \/ AnchorYield(Scanned)
    \/ AliasYield(Scanned)
    \/ TagYield(Scanned)
    \/ FlowMappingStartYield(Scanned)
    \/ FlowSequenceStartYield(Scanned)
    \/ FlowEndYield(Scanned)
    \/ FlowEntryYield(Scanned)
    \/ NoneSkipped(Scanned)
    \/ StreamEnd(Scanned)
    \/ ScannerError(Scanned)

Spec == Init /\ [][Next]_vars

-----------------------------------------------------------------------------
(* default_marshal on its own: it is applied to a text drawn from Texts,   *)
(* the words of Words and every text of at most MaxTextLen characters of   *)
(* Alphabet.  buffer holds the text, result what default_marshal returns.  *)
MaxTextLen == 3

Alphabet == {"~", "1", ".", "e", "-", " ", "n"}

Words ==
    { << "n", "u", "l", "l" >>, << "N", "U", "L", "L" >>, << "N", "u", "l", "l" >>,
      << "t", "r", "u", "e" >>, << "T", "r", "u", "e" >>,
      << "f", "a", "l", "s", "e" >>, << "F", "A", "L", "S", "E" >>,
      << "+", "1" >>, << "0", "1" >>, << "1", "E", "+", "1" >>, << "a" >>,
      << " ", "n", "u", "l", "l", " " >>, << "n", "o" >> }

RECURSIVE TextsOf(_)
TextsOf(n) ==
    IF n = 0 THEN { << >> }
    ELSE LET shorter == TextsOf(n - 1)
         IN  shorter \cup {Append(t, c) : t \in shorter, c \in Alphabet}

Texts == Words \cup TextsOf(MaxTextLen)

InitMarshal ==
    /\ buffer \in {<< t >> : t \in Texts}
    /\ gen = [next |-> 1, lines |-> << >>]
    /\ line_number = None
    /\ line_pos = 0
    /\ line_size = 0
    /\ line_text = << >>
    /\ pending = << >>
    /\ flow_ender = << >>
    /\ token = NoToken
    /\ tokens = << >>
    /\ docs = << >>
    /\ head = << >>
    /\ marshaller = "None"
    /\ tag_indent = None
    /\ doc_consumed = TRUE
    /\ anchors = << >>
    /\ pc = "marshal"
    /\ error = NoError
    /\ result = VNone

(* default_marshal(value) is called on the text and returns. *)
Marshal ==
    /\ pc = "marshal"
    /\ result' = default_marshal(VStr(buffer[1]))
    /\ pc' = "marshalled"
    /\ UNCHANGED << buffer, gen, line_number, line_pos, line_size, line_text,
                    pending, flow_ender, token, tokens, docs, head, marshaller,
                    tag_indent, doc_consumed, anchors, error >>

SpecMarshal == InitMarshal /\ [][Marshal]_vars

-----------------------------------------------------------------------------
(* BoolMarshaller on its own: the marshaller registered as bool is applied *)
(* to a text drawn from BoolTexts, the words of BoolWords and every text   *)
(* of at most MaxTextLen characters of BoolAlphabet.  buffer holds the     *)
(* text, result what marshalled returns, error what it raises.             *)
BoolAlphabet == {"y", "e", "s", "n", "o", "O", " "}

BoolWords ==
    { << "t", "r", "u", "e" >>,
      << "T", "r", "u", "e" >>,
      << "T", "R", "U", "E" >>,
      << "t", "R", "u", "E" >>,
      << "y", "e", "s" >>,
      << "Y", "e", "s" >>,
      << "Y", "E", "S" >>,
      << "o", "n" >>,
      << "O", "n" >>,
      << "O", "N" >>,
      << "y" >>,
      << "Y" >>,
      << "f", "a", "l", "s", "e" >>,
      << "F", "a", "l", "s", "e" >>,
      << "F", "A", "L", "S", "E" >>,
      << "f", "A", "l", "S", "e" >>,
      << "n", "o" >>,
      << "N", "o" >>,
      << "o", "f", "f" >>,
      << "O", "f", "f" >>,
      << "O", "F", "F" >>,
      << "N" >>,
      << "t", "r", "u" >>,
      << "t", "r", "u", "e", "e" >>,
      << "y", "e", "s", "s" >>,
      << "1" >>,
      << "0" >>,
      << "o", "f" >>,
      << "N", "o", "n", "e" >>,
      << "n", "u", "l", "l" >>,
      << "t" >>,
      << "f" >>,
      << "y", "e" >>,
      << "n", "o", "p", "e" >>,
      << "o", " ", "n" >> }

RECURSIVE TextsOver(_, _)
TextsOver(alphabet, n) ==
    IF n = 0 THEN { << >> }
    ELSE LET shorter == TextsOver(alphabet, n - 1)
         IN  shorter \cup {Append(t, c) : t \in shorter, c \in alphabet}

BoolTexts == BoolWords \cup TextsOver(BoolAlphabet, MaxTextLen)

InitBool ==
    /\ buffer \in {<< t >> : t \in BoolTexts}
    /\ gen = [next |-> 1, lines |-> << >>]
    /\ line_number = None
    /\ line_pos = 0
    /\ line_size = 0
    /\ line_text = << >>
    /\ pending = << >>
    /\ flow_ender = << >>
    /\ token = NoToken
    /\ tokens = << >>
    /\ docs = << >>
    /\ head = << >>
    /\ marshaller = "bool"
    /\ tag_indent = None
    /\ doc_consumed = TRUE
    /\ anchors = << >>
    /\ pc = "marshal"
    /\ error = NoError
    /\ result = VNone

(* marshaller.marshalled(value) is called on the text: it returns a value  *)
(* or raises.                                                              *)
MarshalBool ==
    LET m == marshaller_marshalled(marshaller, VStr(buffer[1]))
    IN  /\ pc = "marshal"
        /\ result' = m.v
        /\ pc' = IF m.exc # "" THEN "error" ELSE "marshalled"
        /\ error' = IF m.exc # ""
                    THEN [type |-> m.exc, by |-> "marshaller", msg |-> m.msg,
                          marg |-> None, line_number |-> None, indent |-> None]
                    ELSE error
        /\ UNCHANGED << buffer, gen, line_number, line_pos, line_size, line_text,
                        pending, flow_ender, token, tokens, docs, head, marshaller,
                        tag_indent, doc_consumed, anchors >>

SpecBool == InitBool /\ [][MarshalBool]_vars

-----------------------------------------------------------------------------
(* load_string on the other forms of input: quoted scalars, block scalars, *)
(* tags, and blank or comment lines between entries.  Each form has its    *)
(* own lines, and its buffers are as long as the form needs.               *)
RECURSIVE BuffersOf(_, _)
BuffersOf(lines, n) ==
    IF n = 0 THEN { << >> }
    ELSE LET shorter == BuffersOf(lines, n - 1)
         IN  shorter \cup {Append(b, l) : b \in shorter, l \in lines}

(* Quoted scalars, closed on their line, on a later line, or never. *)
QuoteLines ==
    { << "\"", "a" >>,
      << "b", "\"" >>,
      << "'", "a" >>,
      << "b", "'" >>,
      << "\"", "a", " ", "b", "\"" >>,
      << "c" >>,
      << "x", ":", " ", "\"", "b" >>,
      << "-", " ", "'", "c" >> }

QuoteInputs == BuffersOf(QuoteLines, MaxLines)

(* Block scalars: a line that ends with the header of a block scalar, and  *)
(* after it content lines, empty lines and lines that are indented less.   *)
BlockHeaders ==
    { << "|" >>,
      << "|", "-" >>,
      << "|", "+" >>,
      << ">" >>,
      << ">", "+" >>,
      << "-", " ", "|" >>,
      << "t", ":", " ", "|" >> }

BlockBodyLines ==
    { << " ", " ", "a" >>,
      << " ", " ", "b", " " >>,
      << >>,
      << "c" >>,
      << ".", ".", "." >> }

BlockInputs ==
    {<< h >> \o b : h \in BlockHeaders, b \in BuffersOf(BlockBodyLines, MaxLines + 1)}

(* Tags: registered and unregistered, on scalars and on a collection; an   *)
(* anchor before any node is open; a flow closer after a document marker;  *)
(* a block entry that may follow a tag; a tag after an indented scalar.    *)
TagLines ==
    { << "!", "!", "s", "t", "r", " ", "!", "!", "i", "n", "t", " ", "a" >>,
      << "!", "f", "o", "o", " ", "!", "!", "s", "t", "r", " ", "a" >>,
      << "!", "f", "o", "o", " ", "a" >>,
      << "!", "!", "f", "o", "o", " ", "a" >>,
      << "!", "!", "i", "n", "t", " ", "a" >>,
      << "!", "!", "i", "n", "t", " ", "1" >>,
      << "!", "!", "s", "t", "r", " ", "[", "a", "]" >>,
      << "!", "!", "s", "t", "r" >>,
      << "&", "x", " ", "a" >>,
      << "[" >>,
      << "-", "-", "-", " ", "]" >>,
      << "-", " ", "a" >>,
      << " ", "\"", "a", "\"", " ", "!", "!", "s", "t", "r" >> }

TagInputs == BuffersOf(TagLines, MaxLines)

(* Entries of a block sequence or a block mapping, and the lines that may  *)
(* stand between them: empty, of spaces only, or a comment only.           *)
EntryLines ==
    { << "-", " ", "a" >>,
      << "-", " ", "b" >>,
      << "a", ":", " ", "1" >>,
      << "b", ":", " ", "2" >> }

BetweenLines ==
    { << >>,
      << " ", " " >>,
      << "#", " ", "c" >>,
      << " ", " ", "#", " ", "c" >> }

EntryInputs == BuffersOf(EntryLines \cup BetweenLines, MaxLines + 1)

(* One line of each of the remaining kinds of token. *)
OtherInputs ==
    { << << "{", "a", ":", " ", "b", ",", " ", "c", "}" >> >>,
      << << "%", "d" >> >>,
      << << "-", " ", "*", "x" >> >>,
      << << "a", " ", "#", " ", "c" >> >> }

(* Quoted scalars that close on their line, empty ones among them, alone   *)
(* and inside flow collections with a comma or a closer right after them.  *)
ClosedQuoteLines ==
    { << "\"", "\"" >>,
      << "'", "'" >>,
      << "\"", "a", "\"" >>,
      << "'", "a", "'" >>,
      << "'", "a", "'", "'", "b", "'" >>,
      << "b", "\"" >>,
      << "[", "'", "a", "'", ",", " ", "b", "]" >>,
      << "[", "'", "a", "'", "]" >>,
      << "[", "\"", "a", "\"", ",", " ", "b", "]" >>,
      << "[", "\"", "a", "\"", "]" >>,
      << "{", "k", ":", " ", "'", "a", "'", "}" >> }

ClosedQuoteInputs == BuffersOf(ClosedQuoteLines, MaxLines)

(* Flow collections with a colon before a comma, a closer, a space or the  *)
(* end of the line, and a key of a flow sequence with a flow sequence as   *)
(* its value.                                                              *)
FlowKeyLines ==
    { << "{", "a", ":", "}" >>,
      << "{", "a", ":", ",", " ", "b", ":", " ", "c", "}" >>,
      << "[", "a", ":", "]" >>,
      << "{", "a", ":", " ", "}" >>,
      << "{", "a", ":", " ", "b", "}" >>,
      << "{", "a", ":" >>,
      << "}" >>,
      << "[", "a", ":", " ", "[", "1", "]", "]" >> }

FlowKeyInputs == BuffersOf(FlowKeyLines, MaxLines)

(* Headers of block scalars: | or > followed by at most MaxIndicator       *)
(* characters of IndicatorAlphabet, before a content line and a line that  *)
(* ends the block.                                                         *)
MaxIndicator == 3

IndicatorAlphabet == {"-", "+", "2", "9", "0", "a"}

IndicatorInputs ==
    {<< << s >> \o i, << " ", " ", "a" >>, << "b" >> >> :
        s \in {"|", ">"}, i \in TextsOver(IndicatorAlphabet, MaxIndicator)}

(* Colons alone on their line, after a key text and before a value, and a  *)
(* block entry that may follow them.                                       *)
BareKeyLines ==
    { << ":" >>,
      << " ", ":" >>,
      << "a", ":" >>,
      << ":", " ", "a" >>,
      << "b", ":", " ", "1" >>,
      << " ", " ", "c", ":" >>,
      << "-", " ", "d" >> }

BareKeyInputs == BuffersOf(BareKeyLines, MaxLines)

Forms ==
    QuoteInputs \cup BlockInputs \cup TagInputs \cup EntryInputs \cup OtherInputs
        \cup ClosedQuoteInputs \cup FlowKeyInputs \cup IndicatorInputs \cup BareKeyInputs

(* Scanner.__init__ and RootNode.__init__, for a buffer of inputs *)
InitOn(inputs) ==
    /\ buffer \in inputs
    /\ gen = [next |-> 1, lines |-> buffer]
    /\ line_number = None
    /\ line_pos = 0
    /\ line_size = 0
    /\ line_text = << >>
    /\ pending = << >>
    /\ flow_ender = << >>
    /\ token = NoToken
    /\ tokens = << >>
    /\ docs = << >>
    /\ head = << >>
    /\ marshaller = "None"
    /\ tag_indent = None
    /\ doc_consumed = TRUE
    /\ anchors = << >>
    /\ pc = "start"
    /\ error = NoError
    /\ result = VNone

InitForms == InitOn(Forms)

SpecForms == InitForms /\ [][Next]_vars

-----------------------------------------------------------------------------
(* The run under the scheduling of the interpreter: the loop of            *)
(* RootNode.deserialized over Scanner.__iter__ is the only thread, and as  *)
(* long as the run has neither returned nor raised it takes its next pass. *)
(* A pass is seen on the scanner's cursor: the lines left in the           *)
(* generator, the position in the line, and whether the run goes on.       *)
Width ==
    CHOOSE w \in 0..64 :
        /\ \A i \in 1..Len(buffer) : Len(buffer[i]) <= w
        /\ w = 0 \/ \E i \in 1..Len(buffer) : Len(buffer[i]) = w

cursor == << pc, gen, line_pos >>

Pass ==
    /\ pc \in {"start", "run"}
    /\ pc' \in {"run", "done", "error"}
    /\ gen' \in {[next |-> n, lines |-> SubSeq(buffer, n, Len(buffer))] :
                    n \in gen.next..(Len(buffer) + 1)}
    /\ line_pos' \in 0..(Width + 1)

SpecFair == Spec /\ WF_cursor(Pass)

-----------------------------------------------------------------------------
(* load_string as a function of the input, for the properties that compare *)
(* what two inputs load as: the outcome is the value returned in v, or the *)
(* class of the exception raised in exc.                                   *)

(* token.consume_token(root), by the class of the token *)
consume_token(root, tok) ==
    CASE tok.kind = "Scalar" -> push_value(root, tok.indent, tok.value)
      [] tok.kind = "Key" -> push_key(root, tok.indent, tok.value)
      [] tok.kind = "BlockEntry" -> ensure_node(root, tok.indent, "ListNode")
      [] tok.kind \in {"DocumentStart", "DocumentEnd", "StreamEnd"} -> pop_doc(root)
      [] tok.kind = "Anchor" -> set_anchor(root, tok)
      [] tok.kind = "Alias" -> alias_value(root, tok)
      [] tok.kind = "Tag" -> set_tag(root, tok)
      [] tok.kind = "FlowMappingStart" -> push_new(root, "MapNode", None)
      [] tok.kind = "FlowSequenceStart" -> push_new(root, "ListNode", None)
      [] tok.kind = "FlowEnd" -> pop(root)
      [] tok.kind = "FlowEntry" -> BOk(root_auto_apply(root))
      [] OTHER -> BOk(root)

(* RootNode.deserialized over the tokens of Scanner.__iter__, from the     *)
(* scanner sc and the root as they stand after StreamStartToken.           *)
RECURSIVE deserialized(_, _)
deserialized(sc, root) ==
    LET r == next_token(sc, sc.flow_ender # << >>)
        b == IF r.exc = "StopIteration" THEN pop_doc(root)
             ELSE consume_token(root, r.tok)
    IN  IF r.exc = "StopIteration"
        THEN IF b.exc # "" THEN [exc |-> b.exc, v |-> VNone]
             ELSE [exc |-> "", v |-> simplified(b.root.docs)]
        ELSE IF r.exc # "" THEN [exc |-> r.exc, v |-> VNone]
        ELSE IF r.tok = NoToken THEN deserialized(r.sc, root)
        ELSE IF b.exc # "" THEN [exc |-> b.exc, v |-> VNone]
        ELSE deserialized(r.sc, b.root)

load_string(contents) ==
    deserialized([gen |-> [next |-> 1, lines |-> contents], line_number |-> None,
                  line_pos |-> 0, line_size |-> 0, line_text |-> << >>,
                  pending |-> << >>, flow_ender |-> << >>],
                 [docs |-> << >>, head |-> << >>, marshaller |-> "None",
                  tag_indent |-> None, doc_consumed |-> TRUE, anchors |-> << >>])

-----------------------------------------------------------------------------
(* The properties.  The shapes of input they speak of are read off buffer. *)
Last(s) == s[Len(s)]

(* A plain scalar: a text with none of the characters the scanner gives a  *)
(* meaning to.                                                             *)
IsPlain(text) ==
    /\ text # << >>
    /\ \A i \in 1..Len(text) :
          text[i] \notin {" ", "#", ":", "!", "&", "*", ">", "|", "{", "}", "[", "]",
                          ",", "\"", "'", "%", "-", ".", "\n", "\\"}

(* The value v comes from the scalar text: it is the text, or the text     *)
(* without the blanks around it, or what the plain-scalar rule makes of it.*)
ComesFrom(v, text) ==
    v \in {VStr(text), VStr(strip(text)), default_marshal(VStr(text))}

(* The line is "- s" at column 0, s a plain scalar: SeqItem is s. *)
SeqItem(l) == SubSeq(l, 3, Len(l))

IsSeqLine(l) == Len(l) >= 3 /\ l[1] = "-" /\ l[2] = " " /\ IsPlain(SeqItem(l))

SeqShaped == buffer # << >> /\ \A i \in 1..Len(buffer) : IsSeqLine(buffer[i])

(* The line is "--- s", s a plain scalar: DocItem is s. *)
DocItem(l) == SubSeq(l, 5, Len(l))

IsDocLine(l) ==
    Len(l) >= 5 /\ SubSeq(l, 1, 4) = << "-", "-", "-", " " >> /\ IsPlain(DocItem(l))

DocShaped == buffer # << >> /\ \A i \in 1..Len(buffer) : IsDocLine(buffer[i])

(* The line is "k: v" at column 0, k and v plain scalars. *)
ColonAt(l) == Min({p \in 1..Len(l) : l[p] = ":"})

KeyOf(l) == SubSeq(l, 1, ColonAt(l) - 1)

ValueOf(l) == SubSeq(l, ColonAt(l) + 2, Len(l))

IsMapLine(l) ==
    /\ \E p \in 1..Len(l) : l[p] = ":"
    /\ ColonAt(l) + 2 <= Len(l)
    /\ l[ColonAt(l) + 1] = " "
    /\ IsPlain(KeyOf(l))
    /\ IsPlain(ValueOf(l))

MapShaped ==
    /\ buffer # << >>
    /\ \A i \in 1..Len(buffer) : IsMapLine(buffer[i])
    /\ \A i, j \in 1..Len(buffer) : i # j => KeyOf(buffer[i]) # KeyOf(buffer[j])

(* C1: when load returns, it returns the one document itself if exactly    *)
(* one document was produced, and otherwise (none, or two or more) the     *)
(* list of the documents in the order they were produced.                  *)
C1_LoadReturnsDocumentOrList ==
    pc = "done" =>
        IF Len(docs) = 1 THEN result = docs[1]
        ELSE result.t = "list" /\ result.items = docs

(* C1: load has returned the list of two different documents. *)
C1_TwoDocumentsReturned ==
    /\ pc = "done"
    /\ Len(docs) = 2
    /\ docs[1] # docs[2]
    /\ result.t = "list"
    /\ result.items = docs

(* C2, as the code has it: a scan that runs to the end has emitted         *)
(* StreamStart first and StreamEnd last, each once; a scan that the        *)
(* scanner ended with a parse error has emitted StreamStart first and no   *)
(* StreamEnd at all.                                                       *)
C2_StreamStartFirstStreamEndUnlessError ==
    /\ pc = "done" =>
          /\ tokens # << >>
          /\ tokens[1].kind = "StreamStart"
          /\ Last(tokens).kind = "StreamEnd"
          /\ \A i \in 2..Len(tokens) : tokens[i].kind # "StreamStart"
          /\ \A i \in 1..(Len(tokens) - 1) : tokens[i].kind # "StreamEnd"
    /\ (pc = "error" /\ error.by = "scanner") =>
          /\ tokens # << >>
          /\ tokens[1].kind = "StreamStart"
          /\ \A i \in 1..Len(tokens) : tokens[i].kind # "StreamEnd"

(* C2: the scanner has raised a parse error, after tokens that begin with  *)
(* StreamStart and hold no StreamEnd.                                      *)
C2_ParseErrorWithoutStreamEnd ==
    /\ pc = "error"
    /\ error.by = "scanner"
    /\ error.type = "ParseError"
    /\ tokens[1].kind = "StreamStart"
    /\ \A i \in 1..Len(tokens) : tokens[i].kind # "StreamEnd"

(* C2, as the specification has it: for every input, those the scanner     *)
(* raises a parse error on included, the emitted tokens begin with         *)
(* StreamStart and end with StreamEnd.                                     *)
C2_StreamEndAlwaysLast ==
    (pc = "done" \/ (pc = "error" /\ error.by = "scanner")) =>
        /\ tokens # << >>
        /\ tokens[1].kind = "StreamStart"
        /\ Last(tokens).kind = "StreamEnd"

(* The dict d has the key text k, with a value that comes from text v. *)
HasEntry(d, k, v) ==
    \E j \in 1..(Len(d.items) \div 2) :
        d.items[2 * j - 1] = VStr(k) /\ ComesFrom(d.items[2 * j], v)

(* C3: for an input of lines "k: v" at column 0 with distinct plain keys,  *)
(* load returns one mapping whose keys are exactly the key texts, each     *)
(* mapped to the value of its own line.                                    *)
C3_MappingOfKeyValueLines ==
    (pc = "done" /\ MapShaped) =>
        /\ result.t = "dict"
        /\ Len(result.items) = 2 * Len(buffer)
        /\ \A i \in 1..Len(buffer) :
              HasEntry(result, KeyOf(buffer[i]), ValueOf(buffer[i]))

(* C4: for an input of N lines "- s" at column 0, each s a plain scalar,   *)
(* load raises nothing and returns one sequence of exactly N elements, the *)
(* i-th coming from the i-th line's s.                                     *)
C4_SequenceOfEntryLines ==
    SeqShaped =>
        /\ pc # "error"
        /\ pc = "done" =>
              /\ result.t = "list"
              /\ Len(result.items) = Len(buffer)
              /\ \A i \in 1..Len(buffer) :
                    ComesFrom(result.items[i], SeqItem(buffer[i]))

(* C4: load has returned the sequence of two lines "- s" whose scalars     *)
(* differ, in the order of the lines.                                      *)
C4_TwoEntriesReturned ==
    /\ pc = "done"
    /\ SeqShaped
    /\ Len(buffer) = 2
    /\ SeqItem(buffer[1]) # SeqItem(buffer[2])
    /\ result.t = "list"
    /\ Len(result.items) = 2
    /\ result.items[1].s = SeqItem(buffer[1])
    /\ result.items[2].s = SeqItem(buffer[2])

(* C5: every untagged plain scalar in the result of load has been coerced  *)
(* by the plain-scalar rule; here for the inputs of lines "- s": the i-th  *)
(* element of the result is default_marshal of the i-th line's s.          *)
C5_PlainScalarsCoerced ==
    (pc = "done" /\ SeqShaped) =>
        /\ result.t = "list"
        /\ Len(result.items) = Len(buffer)
        /\ \A i \in 1..Len(buffer) :
              result.items[i] = default_marshal(VStr(SeqItem(buffer[i])))

(* C6: the plain-scalar coercion maps every text that, stripped and in     *)
(* lower case, is one of NULL (null or ~) to null.                         *)
C6_NullTextsCoerceToNull ==
    (pc = "marshalled" /\ lower(strip(buffer[1])) \in NULL) => result = VNone

(* C7: a DocumentStart, DocumentEnd or StreamEnd token that was consumed   *)
(* leaves no node open; and for an input of N lines "--- s", each s a      *)
(* plain scalar, load raises nothing and ends with exactly N documents,    *)
(* the i-th coming from the i-th line's s.                                 *)
C7_MarkersCloseDocuments ==
    /\ (/\ pc \in {"run", "done"}
        /\ tokens # << >>
        /\ Last(tokens).kind \in {"DocumentStart", "DocumentEnd", "StreamEnd"})
       => head = << >>
    /\ DocShaped =>
          /\ pc # "error"
          /\ pc = "done" =>
                /\ Len(docs) = Len(buffer)
                /\ \A i \in 1..Len(buffer) : ComesFrom(docs[i], DocItem(buffer[i]))

(* C7: load has ended with the two documents of two lines "--- s" whose    *)
(* scalars differ, in the order of the lines.                              *)
C7_TwoDocumentsInOrder ==
    /\ pc = "done"
    /\ DocShaped
    /\ Len(buffer) = 2
    /\ DocItem(buffer[1]) # DocItem(buffer[2])
    /\ Len(docs) = 2
    /\ docs[1].s = DocItem(buffer[1])
    /\ docs[2].s = DocItem(buffer[2])

(* The explicitly empty documents among the tokens: the DocumentStart      *)
(* tokens directly followed by DocumentStart, DocumentEnd or StreamEnd.    *)
ExplicitlyEmpty(toks) ==
    {i \in 1..(Len(toks) - 1) :
        /\ toks[i].kind = "DocumentStart"
        /\ toks[i + 1].kind \in {"DocumentStart", "DocumentEnd", "StreamEnd"}}

(* C8: every explicitly empty document has added exactly one empty-string  *)
(* document to the result, and an input with no line has added none.       *)
C8_EmptyDocumentsRecorded ==
    pc = "done" =>
        /\ Cardinality({j \in 1..Len(docs) : docs[j] = VStr(<< >>)})
              = Cardinality(ExplicitlyEmpty(tokens))
        /\ buffer = << >> => docs = << >>

(* The anchor token at place i of toks binds the name to the scalar that   *)
(* follows it, and no later anchor token has that name.                    *)
BindsLast(toks, i, name) ==
    /\ toks[i].kind = "Anchor"
    /\ Tail(toks[i].value.s) = name
    /\ toks[i + 1].kind = "Scalar"
    /\ \A j \in (i + 1)..Len(toks) :
          ~(toks[j].kind = "Anchor" /\ Tail(toks[j].value.s) = name)

(* C9: when the scanner returns the alias token *name after an anchor      *)
(* token &name that was followed by the value V, the value the alias       *)
(* resolves to (anchors.get of the token's text) is V.                     *)
C9_AliasResolvesToAnchoredValue ==
    (pc = "run" /\ Scanned.exc = "" /\ Scanned.tok.kind = "Alias") =>
        \A i \in 1..(Len(tokens) - 1) :
            BindsLast(tokens, i, Tail(Scanned.tok.value.s)) =>
                ComesFrom(AnchorsGet(anchors, Scanned.tok.value.s),
                          tokens[i + 1].value.s)

(* The flow enders that the emitted tokens leave open: "}" for every       *)
(* FlowMappingStart and "]" for every FlowSequenceStart that no FlowEnd    *)
(* has closed yet, innermost last.                                         *)
RECURSIVE OpenEnders(_)
OpenEnders(toks) ==
    IF toks = << >> THEN << >>
    ELSE IF Last(toks).kind = "FlowMappingStart"
    THEN Append(OpenEnders(SubSeq(toks, 1, Len(toks) - 1)), "}")
    ELSE IF Last(toks).kind = "FlowSequenceStart"
    THEN Append(OpenEnders(SubSeq(toks, 1, Len(toks) - 1)), "]")
    ELSE IF Last(toks).kind = "FlowEnd"
    THEN SubSeq(OpenEnders(SubSeq(toks, 1, Len(toks) - 1)), 1,
                Len(OpenEnders(SubSeq(toks, 1, Len(toks) - 1))) - 1)
    ELSE OpenEnders(SubSeq(toks, 1, Len(toks) - 1))

(* Until the scanner raises, its stack of flow enders is that of the       *)
(* openers still open among the emitted tokens.                            *)
FlowEndersAreOpenOpeners ==
    (pc # "error" \/ error.by = "builder") => flow_ender = OpenEnders(tokens)

(* One step seen from its first state: sp is what next_token is about to   *)
(* hand to tokenized.  A closer is being scanned when that span begins     *)
(* with } or ]; it is matched when the stack's top is that character.      *)
ClosingStep ==
    LET sp == next_span(Scanner, flow_ender # << >>)
        closer == /\ pc = "run"
                  /\ ~sp.early
                  /\ sp.start < sp.end
                  /\ PyAt(sp.sc.line_text, sp.start) \in {"}", "]"}
        matched == /\ flow_ender # << >>
                   /\ Last(flow_ender) = PyAt(sp.sc.line_text, sp.start)
    IN  /\ (Len(tokens') = Len(tokens) + 1 /\ Last(tokens').kind = "FlowEnd") =>
              /\ closer
              /\ matched
              /\ flow_ender' = SubSeq(flow_ender, 1, Len(flow_ender) - 1)
        /\ (closer /\ ~matched) =>
              /\ pc' = "error"
              /\ error'.type = "ParseError"
              /\ error'.by = "scanner"
              /\ tokens' = tokens

(* C10: whenever a FlowEnd token is emitted for } (or ]), the top of the   *)
(* flow-ender stack was the entry of a still-open { (or [) and is removed; *)
(* a closer met with an empty stack, or with the other kind on top, raises *)
(* a parse error and no FlowEnd is emitted.                                *)
C10_FlowEndPopsMatchingOpener ==
    []FlowEndersAreOpenOpeners /\ [][ClosingStep]_vars

(* C10: a FlowEnd token has been emitted for a [ that was open, and the    *)
(* stack is empty again.                                                   *)
C10_FlowEndEmitted ==
    /\ pc \in {"run", "done"}
    /\ tokens # << >>
    /\ Last(tokens).kind = "FlowEnd"
    /\ \E i \in 1..Len(tokens) : tokens[i].kind = "FlowSequenceStart"
    /\ flow_ender = << >>

(* C11: in every parse that completes without error the flow brackets are  *)
(* balanced: when StreamEnd has been emitted and load has returned, the     *)
(* scanner's stack of flow enders is empty, so an input that opens [ or {   *)
(* and never closes it does not load.                                       *)
C11_FlowBalancedAtStreamEnd ==
    (pc = "done" /\ Last(tokens).kind = "StreamEnd") => flow_ender = << >>

(* One step seen from its first state: sp is what next_token is about to   *)
(* hand to tokenized.  A quoted scalar starts when that span begins with a *)
(* quote; the input ends before its closing quote when neither the rest of *)
(* the line nor any later line holds that quote character.  The step then  *)
(* raises the runaway-string error, whose message names the line the       *)
(* scanner is on, where the opening quote stands, and yields no token; and *)
(* no other step raises that error.                                        *)
RunawayStep ==
    LET sp == next_span(Scanner, flow_ender # << >>)
        opens == /\ pc = "run"
                 /\ ~sp.early
                 /\ sp.start < sp.end
                 /\ PyAt(sp.sc.line_text, sp.start) \in {"\"", "'"}
        rest == << PySlice(sp.sc.line_text, sp.start + 1, Len(sp.sc.line_text)) >>
                    \o sp.sc.gen.lines
        unclosed == \A i \in 1..Len(rest) :
                        ~Contains(rest[i], PyAt(sp.sc.line_text, sp.start))
        runaway == /\ pc' = "error"
                   /\ error'.type = "ParseError"
                   /\ error'.msg = "Unexpected end, runaway string at line"
        named == /\ error'.marg = sp.sc.line_number
                 /\ buffer[error'.marg][sp.start + 1]
                       = PyAt(sp.sc.line_text, sp.start)
                 /\ tokens' = tokens
    IN  /\ (opens /\ unclosed) => (runaway /\ named)
        /\ (pc = "run" /\ runaway) => (opens /\ named)

(* C12: if the input ends before the closing quote of a quoted scalar is   *)
(* found, the scanner raises a parse error, never a silent StreamEnd, and  *)
(* the error's message names the line on which that quoted scalar started. *)
C12_RunawayStringRaises == [][RunawayStep]_vars

(* C12: load has ended with the runaway-string error of a quoted scalar    *)
(* that started on the second line, after a first line that was scanned.   *)
C12_RunawayOnSecondLine ==
    /\ pc = "error"
    /\ error.type = "ParseError"
    /\ error.msg = "Unexpected end, runaway string at line"
    /\ error.marg = 2
    /\ Len(tokens) >= 2
    /\ \A i \in 1..Len(tokens) : tokens[i].kind # "StreamEnd"

(* The input is the header line of a block scalar (| or >, alone or after  *)
(* "- " or "t: "), then a content line indented by two, then only content  *)
(* lines and empty lines: no later line has a smaller indent.              *)
BlockContent(l) == SubSeq(l, 3, Len(l))

IsContentLine(l) == Len(l) >= 3 /\ l[1] = " " /\ l[2] = " " /\ l[3] # " "

BlockToEnd ==
    /\ Len(buffer) >= 2
    /\ buffer[1] \in BlockHeaders
    /\ IsContentLine(buffer[2])
    /\ \A i \in 3..Len(buffer) : buffer[i] = << >> \/ IsContentLine(buffer[i])

(* The tokens hold, before StreamEnd, a Scalar token of a block style      *)
(* whose value begins with the text of the first content line.             *)
BlockScalarYielded ==
    \E i \in 1..(Len(tokens) - 1) :
        /\ tokens[i].kind = "Scalar"
        /\ tokens[i].style # << >>
        /\ tokens[i].style[1] \in {"|", ">"}
        /\ tokens[i].value.t = "str"
        /\ StartsWith(tokens[i].value.s, rstrip(BlockContent(buffer[2])))

(* C13: a literal or folded block scalar whose content runs to the end of  *)
(* the input still yields its Scalar token, with its content, before       *)
(* StreamEnd; and "t: |" followed by indented lines loads as the mapping   *)
(* of t to the text of those lines.                                        *)
C13_BlockScalarAtEndOfInputYielded ==
    (pc \in {"done", "error"} /\ BlockToEnd) =>
        /\ pc = "done"
        /\ Last(tokens).kind = "StreamEnd"
        /\ BlockScalarYielded
        /\ buffer[1] = << "t", ":", " ", "|" >> =>
              /\ result.t = "dict"
              /\ Len(result.items) = 2
              /\ result.items[1] = VStr(<< "t" >>)
              /\ result.items[2].t = "str"
              /\ StartsWith(result.items[2].s, rstrip(BlockContent(buffer[2])))

(* The input is the header line of a block scalar, a content line, more    *)
(* content lines and empty lines, and then a line that is not empty and    *)
(* is indented less, at place BlockEnder, which ends the block.            *)
BlockEnders ==
    {i \in 3..Len(buffer) : buffer[i] # << >> /\ ~IsContentLine(buffer[i])}

BlockEnder == Min(BlockEnders)

BlockEnded ==
    /\ Len(buffer) >= 3
    /\ buffer[1] \in BlockHeaders
    /\ IsContentLine(buffer[2])
    /\ BlockEnders # {}
    /\ get_indent(buffer[BlockEnder]) < 2

(* The empty lines that end the content: those between the last content    *)
(* line and the line that ends the block.                                  *)
TrailingEmpty ==
    BlockEnder - 1
        - Min({i \in 2..(BlockEnder - 1) :
                  \A j \in (i + 1)..(BlockEnder - 1) : buffer[j] = << >>})

RECURSIVE TrailingNewlines(_)
TrailingNewlines(text) ==
    IF text # << >> /\ Last(text) = "\n"
    THEN 1 + TrailingNewlines(SubSeq(text, 1, Len(text) - 1))
    ELSE 0

(* The style of the block, as the header line gives it: from | or > on. *)
HeaderStyle(h) == SubSeq(h, Min({p \in 1..Len(h) : h[p] \in {"|", ">"}}), Len(h))

(* C14: for a block scalar ended by a less-indented line, the Scalar token *)
(* is yielded with the content and with the trailing newlines its chomping *)
(* indicator asks for: none for strip (-); for keep (+) the newline of the *)
(* last content line and one for every empty line after it; exactly one    *)
(* for clip (no indicator).  And every block scalar token, whatever ended  *)
(* or began its block, has none for strip, exactly one for clip and at     *)
(* least one for keep.                                                     *)
C14_ChompingFixesTrailingNewlines ==
    /\ (pc \in {"done", "error"} /\ BlockEnded) =>
          \E i \in 1..Len(tokens) :
              /\ tokens[i].kind = "Scalar"
              /\ tokens[i].style = HeaderStyle(buffer[1])
              /\ StartsWith(tokens[i].value.s, rstrip(BlockContent(buffer[2])))
              /\ TrailingNewlines(tokens[i].value.s) =
                    IF Contains(tokens[i].style, "-") THEN 0
                    ELSE IF Contains(tokens[i].style, "+") THEN TrailingEmpty + 1
                    ELSE 1
    /\ \A i \in 1..Len(tokens) :
          (/\ tokens[i].kind = "Scalar"
           /\ tokens[i].style # << >>
           /\ tokens[i].style[1] \in {"|", ">"}) =>
              IF Contains(tokens[i].style, "-")
              THEN TrailingNewlines(tokens[i].value.s) = 0
              ELSE IF Contains(tokens[i].style, "+")
              THEN TrailingNewlines(tokens[i].value.s) >= 1
              ELSE TrailingNewlines(tokens[i].value.s) = 1

(* C14: the block "|+" of the line a and an empty line, ended by a line at *)
(* column 0, was yielded as "a" with both of its newlines.                 *)
C14_KeepPreservedTwoNewlines ==
    /\ pc = "done"
    /\ BlockEnded
    /\ TrailingEmpty = 1
    /\ \E i \in 1..Len(tokens) :
          /\ tokens[i].kind = "Scalar"
          /\ tokens[i].style = << "|", "+" >>
          /\ tokens[i].value.s = << "a", "\n", "\n" >>

(* The kinds of token that produce a scalar or open a collection. *)
ValueKinds ==
    {"Scalar", "Alias", "Key", "BlockEntry", "FlowMappingStart", "FlowSequenceStart"}

(* The tag token at place j came while the tag at place i was pending: no  *)
(* token between them produced a scalar or a collection.                   *)
TagsInARow(toks, i, j) ==
    /\ i < j
    /\ toks[i].kind = "Tag"
    /\ toks[j].kind = "Tag"
    /\ \A k \in (i + 1)..(j - 1) : toks[k].kind \notin ValueKinds

(* The tags the registry knows: !! and the name of a marshaller. *)
RegisteredTags == {<< "!", "!" >> \o name : name \in Marshallers}

(* The coercion of the tags the inputs use, on the text of a scalar. *)
IsCoercedBy(v, tag, text) ==
    \/ tag = << "!", "!", "s", "t", "r" >> /\ v = VStr(text)
    \/ /\ tag = << "!", "!", "i", "n", "t" >>
       /\ v.t = "int"
       /\ v.s = strip(text)

(* C15: a Tag token consumed while an earlier tag is still pending raises  *)
(* a parse error, whatever the two tags are; and a registered tag that is  *)
(* pending when a scalar comes is applied to that scalar: a document of    *)
(* one tag and one scalar is the scalar as coerced by the tag.             *)
C15_TwoTagsRaiseElseTagApplied ==
    /\ \A i, j \in 1..Len(tokens) :
          TagsInARow(tokens, i, j) =>
              /\ pc = "error"
              /\ error.type = "ParseError"
              /\ j = Len(tokens)
    /\ (/\ pc = "done"
        /\ Len(tokens) = 4
        /\ tokens[2].kind = "Tag"
        /\ tokens[2].value.s \in RegisteredTags
        /\ tokens[3].kind = "Scalar") =>
           IsCoercedBy(result, tokens[2].value.s, tokens[3].value.s)

(* C16: a tag that names no registered marshaller makes load raise a parse *)
(* error when the tag is applied to the value that follows it: once the    *)
(* scalar after such a tag has been consumed, load has ended with a parse  *)
(* error, and it never returns the value.                                  *)
C16_UnknownTagRejected ==
    \A i \in 1..(Len(tokens) - 1) :
        (/\ tokens[i].kind = "Tag"
         /\ tokens[i].value.s \notin RegisteredTags
         /\ tokens[i + 1].kind = "Scalar") =>
            /\ pc = "error"
            /\ error.type = "ParseError"

(* C17: every failure of load surfaces as the single parse-error kind: no  *)
(* other kind of error escapes.                                            *)
C17_OnlyParseErrors == pc = "error" => error.type = "ParseError"

(* C18: every parse error that load surfaces, raised by the scanner or by  *)
(* the builder, carries a line and a column that are not null.             *)
C18_ParseErrorsCarryPosition ==
    (pc = "error" /\ error.type = "ParseError") =>
        /\ error.line_number # None
        /\ error.indent # None

(* How load has ended: the value returned, or the class of the exception. *)
Outcome ==
    IF pc = "done" THEN [exc |-> "", v |-> result]
    ELSE [exc |-> error.type, v |-> VNone]

(* One step: when it emits StreamEnd while nodes are open, every open node *)
(* is popped and its value applied upward, so that the stack is empty and  *)
(* a document has been added, and load ends as it ends on the same input   *)
(* followed by a line "...".  (An error raised while popping, by the tag   *)
(* of an open node, is the one the terminal "..." raises too.)             *)
StreamEndStep ==
    (/\ pc = "run"
     /\ head # << >>
     /\ Len(tokens') = Len(tokens) + 1
     /\ Last(tokens').kind = "StreamEnd") =>
        /\ load_string(Append(buffer, << ".", ".", "." >>))
              = IF pc' = "done" THEN [exc |-> "", v |-> result']
                ELSE [exc |-> error'.type, v |-> VNone]
        /\ pc' = "done" => (head' = << >> /\ Len(docs') = Len(docs) + 1)

(* C19: reaching StreamEnd with open nodes on the stack is not an error:   *)
(* every open node is popped and its value applied upward, the stack is    *)
(* empty afterwards, and the result equals that of the same input followed *)
(* by a terminal "..." line.                                               *)
C19_StreamEndPopsLikeDocumentEnd == [][StreamEndStep]_vars

(* The input is entries of one block sequence, or of one block mapping,    *)
(* with lines that are empty, of spaces only or a comment only between     *)
(* them: Entries is the input without those lines.                         *)
IsEntryLine(l) == l \in EntryLines

Entries == SelectSeq(buffer, IsEntryLine)

EntriesWithLinesBetween ==
    /\ Len(buffer) >= 3
    /\ \A i \in 1..Len(buffer) : buffer[i] \in EntryLines \cup BetweenLines
    /\ buffer[1] \in EntryLines
    /\ Last(buffer) \in EntryLines
    /\ \/ \A i \in 1..Len(Entries) : Entries[i][1] = "-"
       \/ \A i \in 1..Len(Entries) : Entries[i][1] # "-"

(* C20: inserting an empty line, a line of spaces only or a comment-only   *)
(* line between two entries of a block sequence or block mapping leaves    *)
(* the value returned by load unchanged: load ends on the input as it ends *)
(* on the entries alone.                                                   *)
C20_LinesBetweenEntriesIgnored ==
    (pc \in {"done", "error"} /\ EntriesWithLinesBetween) =>
        Outcome = load_string(Entries)

(* Two texts are the same but for the case of their letters. *)
SameButCase(text, word) ==
    /\ Len(text) = Len(word)
    /\ \A i \in 1..Len(text) :
          \/ text[i] = word[i]
          \/ << text[i], word[i] >> \in
                { << "T", "t" >>, << "R", "r" >>, << "U", "u" >>, << "E", "e" >>,
                  << "Y", "y" >>, << "S", "s" >>, << "O", "o" >>, << "N", "n" >>,
                  << "F", "f" >>, << "A", "a" >>, << "L", "l" >> }

TrueWords == { << "t", "r", "u", "e" >>, << "y", "e", "s" >>, << "o", "n" >>, << "y" >> }

FalseWords ==
    { << "f", "a", "l", "s", "e" >>, << "n", "o" >>, << "o", "f", "f" >>, << "n" >> }

(* C21: the bool marshaller returns true for exactly the texts true, yes,  *)
(* on and y, false for exactly false, no, off and n, whatever the case of  *)
(* their letters, and raises a parse error for every other text.           *)
C21_BoolMarshallerRecognizes ==
    (marshaller = "bool" /\ pc \in {"marshalled", "error"}) =>
        /\ (pc = "marshalled" /\ result = VBool(TRUE))
              <=> \E w \in TrueWords : SameButCase(buffer[1], w)
        /\ (pc = "marshalled" /\ result = VBool(FALSE))
              <=> \E w \in FalseWords : SameButCase(buffer[1], w)
        /\ (pc = "error" /\ error.type = "ParseError")
              <=> ~\E w \in TrueWords \cup FalseWords : SameButCase(buffer[1], w)

(* C21: the marshaller has returned true for a text with capital letters. *)
C21_CapitalYesIsTrue ==
    /\ marshaller = "bool"
    /\ pc = "marshalled"
    /\ buffer[1] = << "Y", "E", "S" >>
    /\ result = VBool(TRUE)

(* The line starts with a plain key text at column 0 that runs up to the   *)
(* first colon of the line: KeyOf is that text.                            *)
IsKeyLine(l) == (\E p \in 1..Len(l) : l[p] = ":") /\ IsPlain(KeyOf(l))

(* C22: the Key token emitted for the colon of a line "key: ..." carries   *)
(* the key text that precedes the colon as its payload, and once the       *)
(* builder has consumed the token that text is the pending key of the      *)
(* mapping on top of the stack.                                            *)
C22_KeyTokenCarriesKeyText ==
    \A i \in 1..Len(tokens) :
        (tokens[i].kind = "Key" /\ IsKeyLine(buffer[tokens[i].line_number])) =>
            /\ tokens[i].value = VStr(KeyOf(buffer[tokens[i].line_number]))
            /\ (i = Len(tokens) /\ pc = "run") =>
                  /\ head # << >>
                  /\ Top(RootNode).cls = "MapNode"
                  /\ Top(RootNode).last_key = VStr(KeyOf(buffer[tokens[i].line_number]))

(* C23: the indent of a token is the 0-based column of the first character *)
(* of the token's own text: a plain scalar's indent is the column of the   *)
(* first character of its text that is not a space, and the indent of the  *)
(* Key token of a line "key: ..." is the column where the key text starts, *)
(* column 0 whatever the length of the key.                                *)
C23_IndentIsColumnOfOwnText ==
    \A i \in 1..Len(tokens) :
        /\ (tokens[i].kind = "Scalar" /\ tokens[i].style = << >>) =>
              /\ tokens[i].indent # None
              /\ PyAt(buffer[tokens[i].line_number], tokens[i].indent) # " "
              /\ StartsWith(PySlice(buffer[tokens[i].line_number], tokens[i].indent,
                                    Len(buffer[tokens[i].line_number])),
                            strip(tokens[i].value.s))
        /\ (tokens[i].kind = "Key" /\ IsKeyLine(buffer[tokens[i].line_number])) =>
              tokens[i].indent = 0

(* C24: the text of a plain Scalar token is source text of its line, from  *)
(* the column the token gives as its indent, with the trailing whitespace  *)
(* removed: it never ends in a space.                                      *)
C24_PlainScalarRightTrimmed ==
    \A i \in 1..Len(tokens) :
        (tokens[i].kind = "Scalar" /\ tokens[i].style = << >>) =>
            /\ StartsWith(PySlice(buffer[tokens[i].line_number], tokens[i].indent,
                                  Len(buffer[tokens[i].line_number])),
                          tokens[i].value.s)
            /\ tokens[i].value.s = rstrip(tokens[i].value.s)

(* The line is one quoted scalar, opened in column 0 and closed by the     *)
(* last character of the line; in a single-quoted one every quote inside   *)
(* is half of a '' pair.  QuotedText is the text between the two quotes,   *)
(* with '' read as ' in the single-quoted style.                           *)
Inner(l) == SubSeq(l, 2, Len(l) - 1)

ClosedOnLine(l) ==
    /\ Len(l) >= 2
    /\ l[1] \in {"\"", "'"}
    /\ Last(l) = l[1]
    /\ \A p \in 1..Len(Inner(l)) :
          Inner(l)[p] = l[1] =>
              /\ l[1] = "'"
              /\ \/ p < Len(Inner(l)) /\ Inner(l)[p + 1] = "'"
                 \/ p > 1 /\ Inner(l)[p - 1] = "'"

RECURSIVE PairsRead(_)
PairsRead(text) ==
    IF text = << >> THEN << >>
    ELSE IF Len(text) >= 2 /\ text[1] = "'" /\ text[2] = "'"
    THEN << "'" >> \o PairsRead(SubSeq(text, 3, Len(text)))
    ELSE << text[1] >> \o PairsRead(Tail(text))

QuotedText(l) == IF l[1] = "'" THEN PairsRead(Inner(l)) ELSE Inner(l)

(* C25: when the first line is a quoted scalar closed on that line, the    *)
(* scanner raises nothing for it and yields a Scalar token whose value is  *)
(* exactly the text between the quotes, the empty text included, and it    *)
(* has read no later line when it yields the token.                        *)
C25_QuotedScalarClosedOnItsLine ==
    (buffer # << >> /\ ClosedOnLine(buffer[1]) /\ (Len(tokens) >= 2 \/ pc = "error")) =>
        /\ Len(tokens) >= 2
        /\ tokens[2].kind = "Scalar"
        /\ tokens[2].line_number = 1
        /\ tokens[2].value = VStr(QuotedText(buffer[1]))
        /\ (pc = "run" /\ Len(tokens) = 2 /\ token = tokens[2]) => line_number = 1

(* The token is a quoted scalar whose value is the text as written between *)
(* its quotes on the token's line, in a line that opens a flow collection: *)
(* AfterQuote is the column right after its closing quote.                 *)
AfterQuote(tok) == tok.indent + Len(tok.value.s) + 2

QuotedInFlow(tok) ==
    /\ tok.kind = "Scalar"
    /\ tok.style \in { << "\"" >>, << "'" >> }
    /\ buffer[tok.line_number][1] \in {"[", "{"}
    /\ PySlice(buffer[tok.line_number], tok.indent, AfterQuote(tok))
          = tok.style \o tok.value.s \o tok.style

(* C26: a quoted scalar in a flow collection that is immediately followed  *)
(* by a comma or a closing bracket is followed in the token stream by the  *)
(* FlowEntry or FlowEnd token of that character: the scanner skips no      *)
(* character after the closing quote.                                      *)
C26_NothingSkippedAfterQuote ==
    \A i \in 1..(Len(tokens) - 1) :
        (/\ QuotedInFlow(tokens[i])
         /\ AfterQuote(tokens[i]) < Len(buffer[tokens[i].line_number])
         /\ PyAt(buffer[tokens[i].line_number], AfterQuote(tokens[i])) \in {",", "]", "}"}) =>
            /\ tokens[i + 1].kind =
                  (IF PyAt(buffer[tokens[i].line_number], AfterQuote(tokens[i])) = ","
                   THEN "FlowEntry" ELSE "FlowEnd")
            /\ tokens[i + 1].line_number = tokens[i].line_number
            /\ tokens[i + 1].indent = AfterQuote(tokens[i])

(* The first line opens a flow collection in column 0 and has a colon in   *)
(* column col: the scanner has passed that colon when it has yielded a     *)
(* token that starts after it.                                             *)
ColonInFlow(col) ==
    /\ buffer[1][1] \in {"[", "{"}
    /\ PyAt(buffer[1], col) = ":"

Passed(col) ==
    \E j \in 1..Len(tokens) :
        \/ tokens[j].kind = "StreamEnd"
        \/ tokens[j].line_number > 1
        \/ tokens[j].line_number = 1 /\ tokens[j].indent # None /\ tokens[j].indent > col

KeyAt(col) ==
    \E j \in 1..Len(tokens) :
        tokens[j].kind = "Key" /\ tokens[j].line_number = 1 /\ tokens[j].indent = col

(* The columns of the first line. *)
Columns == IF buffer = << >> THEN {} ELSE 0..(Len(buffer[1]) - 1)

(* C27: in flow context a colon that is followed by a comma or a closing   *)
(* bracket is a key separator and produces a Key token, as does a colon    *)
(* followed by a space or the end of the line.                             *)
C27_FlowColonBeforeCloserIsKey ==
    \A col \in Columns :
        (/\ ColonInFlow(col)
         /\ Passed(col)
         /\ \/ col + 1 = Len(buffer[1])
            \/ PyAt(buffer[1], col + 1) \in {",", "]", "}", " "}) => KeyAt(col)

(* The input is the header of a block scalar alone on the first line, a    *)
(* content line and a line that ends the block: Indicator is the header    *)
(* without its | or >.                                                     *)
IsIndicatorInput ==
    /\ Len(buffer) = 3
    /\ buffer[1] # << >>
    /\ buffer[1][1] \in {"|", ">"}
    /\ buffer[2] = << " ", " ", "a" >>
    /\ buffer[3] = << "b" >>

Indicator == Tail(buffer[1])

Count(text, c) == Cardinality({i \in 1..Len(text) : text[i] = c})

OneToNine == {"1", "2", "3", "4", "5", "6", "7", "8", "9"}

(* Both chomping indicators, one of them twice, a character for the indent *)
(* that is no digit or is zero, or more than three characters in all.      *)
IndicatorRejected ==
    \/ Contains(Indicator, "-") /\ Contains(Indicator, "+")
    \/ Count(Indicator, "-") >= 2
    \/ Count(Indicator, "+") >= 2
    \/ \E i \in 1..Len(Indicator) : Indicator[i] \notin {"-", "+"} \cup OneToNine
    \/ Len(buffer[1]) > 3

(* At most one chomping indicator and at most one digit from 1 to 9. *)
IndicatorWellFormed ==
    /\ \A i \in 1..Len(Indicator) : Indicator[i] \in {"-", "+"} \cup OneToNine
    /\ Count(Indicator, "-") + Count(Indicator, "+") <= 1
    /\ Cardinality({i \in 1..Len(Indicator) : Indicator[i] \in OneToNine}) <= 1

(* C28: a header with both chomping indicators, a repeated one, an indent  *)
(* character that is no digit or is zero, or more than three characters is *)
(* rejected with a parse error of the scanner before any token of the      *)
(* block is yielded; a header of | or > with at most one chomping          *)
(* indicator and at most one digit from 1 to 9 is accepted: no error is    *)
(* raised and the block is yielded as a Scalar token of that style.        *)
C28_BlockIndicatorValidated ==
    IsIndicatorInput =>
        /\ IndicatorRejected =>
              /\ Len(tokens) <= 1
              /\ pc # "done"
              /\ pc = "error" => (error.type = "ParseError" /\ error.by = "scanner")
              /\ load_string(buffer).exc = "ParseError"
        /\ IndicatorWellFormed =>
              /\ pc # "error"
              /\ Len(tokens) >= 2 =>
                    (tokens[2].kind = "Scalar" /\ tokens[2].style = buffer[1])
              /\ load_string(buffer).exc = ""

(* C28: the header |-+ has been rejected as ambiguous. *)
C28_AmbiguousIndicatorRejected ==
    /\ IsIndicatorInput
    /\ buffer[1] = << "|", "-", "+" >>
    /\ pc = "error"
    /\ error.type = "ParseError"
    /\ error.msg = "Ambiguous literal style"
    /\ Len(tokens) = 1

(* The indents of the open nodes from the bottom of the stack to the top,  *)
(* the nodes of null indent left out.                                      *)
HasIndent(indent) == indent # None

OpenIndents == SelectSeq([i \in 1..Len(head) |-> head[i].indent], HasIndent)

(* C29: in every state of the builder the indents of the open nodes that   *)
(* have one are strictly increasing from the bottom of the stack to the    *)
(* top.                                                                    *)
C29_StackIndentsStrictlyIncreasing ==
    \A i \in 1..(Len(OpenIndents) - 1) : OpenIndents[i] < OpenIndents[i + 1]

(* The last two tokens consumed are Key tokens of the same indent: no      *)
(* value came between them.                                                *)
TwoKeysInARow ==
    /\ Len(tokens) >= 2
    /\ Last(tokens).kind = "Key"
    /\ tokens[Len(tokens) - 1].kind = "Key"
    /\ tokens[Len(tokens) - 1].indent = Last(tokens).indent

(* The dict d maps the key k to null. *)
MapsToNull(d, k) ==
    /\ d.t = "dict"
    /\ \E j \in 1..(Len(d.items) \div 2) :
          d.items[2 * j - 1] = k /\ d.items[2 * j] = VNone

(* C30: two Key tokens at the same indent with no value between them raise *)
(* no error: when the second has been consumed, the mapping on top of the  *)
(* stack holds the first key with the value null and has the second key as *)
(* its one pending key; and a key is never staged on a map node that still *)
(* holds a pending one.                                                    *)
C30_SecondKeyStoresFirstWithNull ==
    /\ TwoKeysInARow =>
          /\ pc # "error"
          /\ head # << >>
          /\ Top(RootNode).cls = "MapNode"
          /\ MapsToNull(Top(RootNode).target, tokens[Len(tokens) - 1].value)
          /\ Top(RootNode).last_key = Last(tokens).value
          /\ Top(RootNode).needs_apply
    /\ ~(pc = "error"
         /\ error.msg = "Internal error, previous key was not consumed")

(* C30: the second of two Key tokens in a row has been consumed, and the   *)
(* mapping holds the first key with the value null.                        *)
C30_SecondKeyStaged ==
    /\ TwoKeysInARow
    /\ pc = "run"
    /\ MapsToNull(Top(RootNode).target, tokens[Len(tokens) - 1].value)
    /\ Top(RootNode).needs_apply

-----------------------------------------------------------------------------
(* The text sub occurs in the text. *)
Infix(sub, text) ==
    \E i \in 1..(Len(text) - Len(sub) + 1) : SubSeq(text, i, i + Len(sub) - 1) = sub

(* The value v holds the mapping d: it is d, a collection with a member    *)
(* that holds d, or a text that d was formatted into.                      *)
RECURSIVE Holds(_, _)
Holds(v, d) ==
    \/ v = d
    \/ v.t = "str" /\ Infix(Repr(d), v.s)
    \/ v.t \in {"list", "dict"} /\ \E i \in 1..Len(v.items) : Holds(v.items[i], d)

(* A Key token was the last one consumed: the map node on top of the       *)
(* stack holds a staged key and no staged value.                           *)
KeyStagedOnTop ==
    /\ pc = "run"
    /\ tokens # << >>
    /\ Last(tokens).kind = "Key"
    /\ head # << >>
    /\ Top(RootNode).cls = "MapNode"
    /\ Top(RootNode).needs_apply
    /\ Top(RootNode).last_value = VNone

(* The token tok pops the node: it ends the document or the flow           *)
(* collection, or it is a key or a block entry that is indented less.      *)
PopsNode(node, tok) ==
    \/ tok.kind \in {"StreamEnd", "DocumentStart", "DocumentEnd", "FlowEnd"}
    \/ /\ tok.kind \in {"Key", "BlockEntry"}
       /\ tok.indent # None
       /\ node.indent # None
       /\ tok.indent < node.indent

(* The mapping of the node once its staged key is stored with null. *)
StoredWithNull(node) ==
    VDict(DictSet(IF node.target = VNone THEN << >> ELSE node.target.items,
                  node.last_key, VNone))

(* The token consumed by this step pops the map node on top of the stack   *)
(* while it holds a staged key and no staged value.                        *)
StagedMapPopped ==
    /\ KeyStagedOnTop
    /\ Len(tokens') = Len(tokens) + 1
    /\ PopsNode(Top(RootNode), Last(tokens'))
    /\ pc' # "error"

(* C31: when a map node is popped while it holds a staged key and no       *)
(* staged value, the key is stored in its mapping with the value null      *)
(* before the mapping goes on: a map node that was alone on the stack is   *)
(* emitted as the document that has the key with null, and a nested one    *)
(* is held, key and null included, by a document emitted in the step or by *)
(* a node that is still open.                                              *)
C31_PoppedMapStoresStagedKey ==
    [][StagedMapPopped =>
          /\ (Len(head) = 1 /\ head[1].marshaller = "None" /\ marshaller = "None") =>
                /\ Len(docs') > Len(docs)
                /\ docs'[Len(docs) + 1] = StoredWithNull(head[1])
          /\ \/ \E i \in (Len(docs) + 1)..Len(docs') :
                   Holds(docs'[i], StoredWithNull(Top(RootNode)))
             \/ \E i \in 1..Len(head') :
                   \/ Holds(head'[i].target, StoredWithNull(Top(RootNode)))
                   \/ Holds(head'[i].last_value, StoredWithNull(Top(RootNode)))]_vars

(* C31: a map node with a staged key and nothing stored yet was popped by  *)
(* the end of the stream, and the document emitted maps the key to null.   *)
C31_StagedKeyEmittedWithNull ==
    /\ pc = "done"
    /\ Len(tokens) >= 3
    /\ tokens[Len(tokens) - 1].kind = "Key"
    /\ docs # << >>
    /\ MapsToNull(Last(docs), tokens[Len(tokens) - 1].value)

-----------------------------------------------------------------------------
(* This step consumes a BlockEntry token whose indent is the indent of the *)
(* sequence node on top of the stack.                                      *)
EntryAtIndentOfTop ==
    /\ pc = "run"
    /\ head # << >>
    /\ Top(RootNode).cls = "ListNode"
    /\ Top(RootNode).indent # None
    /\ Len(tokens') = Len(tokens) + 1
    /\ Last(tokens').kind = "BlockEntry"
    /\ Last(tokens').indent = Top(RootNode).indent

(* The elements of the sequence of a list node. *)
Elements(node) == IF node.target = VNone THEN << >> ELSE node.target.items

(* C32: a BlockEntry token whose indent equals the indent of the sequence  *)
(* node on top of the stack raises nothing and pushes no node: the nodes   *)
(* below stay as they are, no document is emitted, the same sequence node  *)
(* stays on top, its staged element, if it has one, is appended to its     *)
(* sequence, and nothing is staged on it when the token has been consumed. *)
C32_EntryAtSameIndentKeepsSequence ==
    [][EntryAtIndentOfTop =>
          /\ pc' = "run"
          /\ docs' = docs
          /\ Len(head') = Len(head)
          /\ SubSeq(head', 1, Len(head) - 1) = SubSeq(head, 1, Len(head) - 1)
          /\ Last(head').cls = "ListNode"
          /\ Last(head').indent = Last(head).indent
          /\ Last(head').marshaller = Last(head).marshaller
          /\ Elements(Last(head')) =
                IF Last(head).needs_apply
                THEN Append(Elements(Last(head)), Last(head).last_value)
                ELSE Elements(Last(head))
          /\ ~Last(head').needs_apply
          /\ Last(head').last_value = VNone]_vars

(* C32: a second block entry of the same indent has been consumed, and the *)
(* element staged by the first is in the sequence of the node on top.      *)
C32_SecondEntryOnSameSequence ==
    /\ pc = "run"
    /\ Len(tokens) >= 4
    /\ Last(tokens).kind = "BlockEntry"
    /\ tokens[Len(tokens) - 1].kind = "Scalar"
    /\ tokens[Len(tokens) - 2].kind = "BlockEntry"
    /\ tokens[Len(tokens) - 2].indent = Last(tokens).indent
    /\ Len(head) = 1
    /\ head[1].cls = "ListNode"
    /\ Elements(head[1]) = << tokens[Len(tokens) - 1].value >>

-----------------------------------------------------------------------------
(* This step consumes a BlockEntry token that is indented less than a      *)
(* block mapping that is open on the stack.                                *)
EntryBelowOpenMapping ==
    /\ pc = "run"
    /\ Len(tokens') = Len(tokens) + 1
    /\ Last(tokens').kind = "BlockEntry"
    /\ \E i \in 1..Len(head) :
          /\ head[i].cls = "MapNode"
          /\ head[i].indent # None
          /\ Last(tokens').indent < head[i].indent

(* C33: a BlockEntry token whose indent is strictly less than the indent   *)
(* of a block mapping open on the stack raises a parse error of the        *)
(* builder: the mapping is not popped silently.                            *)
C33_EntryBelowMappingRaises ==
    [][EntryBelowOpenMapping =>
          /\ pc' = "error"
          /\ error'.type = "ParseError"
          /\ error'.by = "builder"]_vars

-----------------------------------------------------------------------------
(* This step consumes a plain scalar while the node stack is empty and no  *)
(* tag is pending.                                                         *)
PlainScalarOnEmptyStack ==
    /\ pc = "run"
    /\ head = << >>
    /\ marshaller = "None"
    /\ Len(tokens') = Len(tokens) + 1
    /\ Last(tokens').kind = "Scalar"
    /\ Last(tokens').style = << >>

(* C34: a plain scalar that arrives while the node stack is empty is       *)
(* received by a scalar node that is popped at once: when the Scalar token *)
(* has been consumed the stack is empty again and the value is a document. *)
C34_ScalarOnEmptyStackPoppedAtOnce ==
    [][PlainScalarOnEmptyStack =>
          /\ pc' = "run"
          /\ head' = << >>
          /\ Len(docs') = Len(docs) + 1]_vars

-----------------------------------------------------------------------------
(* The kind of the structural token a line begins with: a block entry, a   *)
(* document marker or a directive; "" for any other line.                  *)
StructuralKind(l) ==
    IF l = << "-", "-", "-" >> \/ StartsWith(l, << "-", "-", "-", " " >>)
    THEN "DocumentStart"
    ELSE IF l = << ".", ".", "." >> \/ StartsWith(l, << ".", ".", ".", " " >>)
    THEN "DocumentEnd"
    ELSE IF l = << "-" >> \/ StartsWith(l, << "-", " " >>) THEN "BlockEntry"
    ELSE IF StartsWith(l, << "%" >>) THEN "Directive"
    ELSE ""

(* The token at place i is the Scalar token of a block scalar. *)
IsBlockScalarAt(i) ==
    /\ tokens[i].kind = "Scalar"
    /\ tokens[i].style # << >>
    /\ tokens[i].style[1] \in {"|", ">"}

(* C35: when a block scalar is ended by a less-indented line that begins   *)
(* with a block entry, a document marker or a directive, the token of that *)
(* line is emitted right after the Scalar token of the block scalar.       *)
C35_TerminatingLineTokenEmitted ==
    (pc = "done" /\ BlockEnded /\ StructuralKind(buffer[BlockEnder]) # "") =>
        \E i \in 1..(Len(tokens) - 1) :
            /\ IsBlockScalarAt(i)
            /\ tokens[i + 1].kind = StructuralKind(buffer[BlockEnder])
            /\ tokens[i + 1].line_number = BlockEnder

-----------------------------------------------------------------------------
(* What the call of next_token gives in a run that goes on: a token or     *)
(* None, the end of the lines, or a parse error.                           *)
NextTokenDefined ==
    \/ Scanned.exc \in {"StopIteration", "ParseError"}
    \/ /\ Scanned.exc = ""
       /\ Scanned.tok.kind \in
             {"None", "Scalar", "Key", "BlockEntry", "DocumentStart", "DocumentEnd",
              "Directive", "EmptyLine", "Anchor", "Alias", "Tag", "FlowMappingStart",
              "FlowSequenceStart", "FlowEnd", "FlowEntry"}

(* This step is a call of next_token that returned; and the progress such  *)
(* a call makes: the pending span is drained, the scanner is on a later    *)
(* line, or the cursor is further in the same line.                        *)
NextTokenReturned == pc = "run" /\ pc' = "run"

ScannerProgress ==
    \/ Len(pending') < Len(pending)
    \/ gen'.next > gen.next
    \/ gen'.next = gen.next /\ line_pos' > line_pos

-----------------------------------------------------------------------------
(* This step consumes a FlowEnd token.  The scanner yields one only when   *)
(* the closer is the one its last open opener expects, so the ender on top *)
(* of flow_ender before the step tells the matching opener.                *)
FlowEndConsumed ==
    /\ pc = "run"
    /\ flow_ender # << >>
    /\ Len(tokens') = Len(tokens) + 1
    /\ Last(tokens').kind = "FlowEnd"

(* The class of the node that the opener of an ender pushed. *)
OpenedClass(ender) == IF ender = "]" THEN "ListNode" ELSE "MapNode"

(* The nodes on the stack that are not temporary and have a null indent,   *)
(* as the nodes have that the flow openers push when no tag is pending.    *)
IsFlowNode(node) == node.indent = None /\ ~node.is_temp

FlowNodes == SelectSeq(head, IsFlowNode)

(* C37: for every FlowEnd token consumed by the builder the node popped is *)
(* the node that the matching FlowMappingStart or FlowSequenceStart token  *)
(* pushed: the node on top of the stack is a node of a flow opener, of the *)
(* class the matching opener pushes, and the open openers are as many as   *)
(* the nodes of flow openers on the stack; the pop raises nothing and      *)
(* leaves the nodes below on the stack.                                    *)
C37_FlowEndPopsNodeOfItsOpener ==
    [][(FlowEndConsumed /\ marshaller = "None"
        /\ \A i \in 1..Len(head) : head[i].marshaller = "None") =>
          /\ head # << >>
          /\ IsFlowNode(Last(head))
          /\ Last(head).cls = OpenedClass(Last(flow_ender))
          /\ Len(FlowNodes) = Len(flow_ender)
          /\ pc' = "run"
          /\ Len(head') = Len(head) - 1]_vars

-----------------------------------------------------------------------------
(* The holders of a marshaller: the root when a tag is pending on it, and  *)
(* the open nodes that took one when they were created.                    *)
Holders(root) ==
    (IF root.marshaller # "None" THEN 1 ELSE 0)
        + Cardinality({i \in 1..Len(root.head) : root.head[i].marshaller # "None"})

(* This step consumes a token of one of the kinds, and raises nothing. *)
Consumed(kinds) ==
    /\ Len(tokens') = Len(tokens) + 1
    /\ Last(tokens').kind \in kinds
    /\ pc' # "error"

(* C38: a tag's marshaller coerces at most one value and is never held     *)
(* twice.  Only a Tag token adds a holder, and only one; a scalar or an    *)
(* alias that arrives while a tag is pending on the root is coerced and    *)
(* leaves the root without marshaller, and no node takes it; a document    *)
(* value leaves the root without marshaller; a node created while a tag is *)
(* pending takes the marshaller and the root gives it up, and when no node *)
(* is created the tag stays pending on the root and no node has taken it;  *)
(* when the entry first pops the open nodes down to a document value, that *)
(* value is the one the pending marshaller coerces, and the root is left   *)
(* without marshaller before the node is created.                          *)
C38_MarshallerHeldOnceAndReset ==
    [][/\ Holders(RootNode') <= Holders(RootNode)
              + (IF Consumed({"Tag"}) THEN 1 ELSE 0)
       /\ (Consumed({"Scalar", "Alias"}) /\ marshaller # "None") =>
             /\ marshaller' = "None"
             /\ Holders(RootNode') < Holders(RootNode)
       /\ (Len(docs') > Len(docs) /\ pc' # "error") => marshaller' = "None"
       /\ (Consumed({"FlowMappingStart", "FlowSequenceStart"}) /\ marshaller # "None") =>
             /\ marshaller' = "None"
             /\ tag_indent' = None
             /\ Len(head') = Len(head) + 1
             /\ Last(head').marshaller = marshaller
       /\ (Consumed({"Key", "BlockEntry"}) /\ marshaller # "None") =>
             \/ /\ marshaller' = "None"
                /\ Len(docs') = Len(docs)
                /\ head' # << >>
                /\ Last(head').marshaller = marshaller
             \/ /\ marshaller' = "None"
                /\ Len(docs') > Len(docs)
                /\ Holders(RootNode') < Holders(RootNode)
             \/ /\ marshaller' = marshaller
                /\ Len(docs') = Len(docs)]_vars

(* C38: a sequence node was created while a tag was pending: the node      *)
(* holds the marshaller and the root holds none.                           *)
C38_NodeTookPendingMarshaller ==
    /\ pc = "run"
    /\ Len(tokens) >= 3
    /\ Last(tokens).kind = "BlockEntry"
    /\ tokens[Len(tokens) - 1].kind = "Tag"
    /\ marshaller = "None"
    /\ head # << >>
    /\ Last(head).marshaller # "None"
    /\ Holders(RootNode) = 1

====
